---- MODULE Spec2Model ----
(***************************************************************************)
(* Model of the McDonald's management system: the discount resolver       *)
(* (src/src/patterns/strategy.py: the six DiscountStrategy kinds and the   *)
(* DiscountManager that evaluates them), the order models                  *)
(* (src/src/models/order.py), the order tracker and its observers          *)
(* (src/src/patterns/observer.py), the order factories and their manager   *)
(* (src/src/patterns/factory.py) and the order service                     *)
(* (src/src/services/order_service.py).                                    *)
(*                                                                         *)
(* Specifications.  Spec: a manager, rules registered, one resolution.     *)
(* RuleSpec: one strategy object and its apply_discount.  RepeatSpec: a    *)
(* manager asked repeatedly.  OrderSpec: orders constructed, filled and    *)
(* validated.  TrackerSpec: observers attached, detached and switched,     *)
(* notifications sent and the queue processed; TrackerLiveSpec adds that   *)
(* a running process_notification_queue goes on.  FactorySpec: the         *)
(* dine-in and delivery factories behind the factory manager.              *)
(* ServiceSpec: the order service creating, updating, cancelling orders.   *)
(* DriveThruSpec: the service with the drive-thru factory, up to a full    *)
(* queue.                                                                  *)
(*                                                                         *)
(* Conventions.  Money is an integer number of cents.  Python None in a    *)
(* numeric or datetime field is NoneVal.  datetime.now() is the variable   *)
(* now, in hours since Monday 00:00: its time of day is now % 24, its      *)
(* weekday (now \div 24) % 7.  Texts on which the code computes (item      *)
(* names, tiers: lower(), substring) are sequences of one-character        *)
(* strings; texts the code only copies (rule names, reasons) are strings.  *)
(* round(x, 2) of a value that lies exactly between two cents depends on   *)
(* the binary floating-point image of x (round(1.245, 2) = 1.25 but        *)
(* round(0.075, 2) = 0.07): fpTieUp, fixed at start, stands for that       *)
(* direction, so every property is checked for both.                       *)
(***************************************************************************)
EXTENDS Integers, Sequences, FiniteSets, TLC

VARIABLES
    now,                        \* datetime.now()
    fpTieUp,                    \* direction round() takes on an exact half cent
    strategies,                 \* DiscountManager._strategies
    applied_discounts_today,    \* DiscountManager._applied_discounts_today
    total_savings_today,        \* DiscountManager._total_savings_today
    calls,                      \* number of resolutions made so far
    call,                       \* the last resolution: its inputs, the time it ran at, the
                                \* rules before it, whether it raised, its result
    orders,                     \* the Order objects constructed so far
    total_orders_created,       \* Order.total_orders_created
    daily_order_count,          \* Order.daily_order_count
    orders_by_type,             \* Order.orders_by_type
    current_queue_size,         \* DriveThruOrder.current_queue_size
    validation,                 \* the last call of validate_order: the order as it was,
                                \* whether the call raised, and with what reason
    observers,                  \* OrderTracker._observers
    is_active,                  \* OrderObserver._is_active of each observer
    notification_count,         \* OrderObserver._notification_count of each observer
    auto_notify_enabled,        \* OrderTracker._auto_notify_enabled
    notification_queue,         \* OrderTracker._notification_queue
    processing,                 \* control is inside process_notification_queue
    passes,                     \* passes of its loop made by the call, counted modulo 2
    notify_calls,               \* number of calls of notify made from outside the tracker
    notified,                   \* the argument of the last of them
    dine_in_factory,            \* the DineInOrderFactory: seating_capacity, _occupied_tables,
                                \* _table_assignments, _orders_created
    drive_thru_factory,         \* the DriveThruOrderFactory: _lane_queues, _lane_assignments,
                                \* _orders_created
    delivery_factory,           \* the DeliveryOrderFactory: _available_drivers,
                                \* _driver_assignments, _orders_created
    factory_manager,            \* the OrderFactoryManager: _factories, _factory_stats
    created,                    \* the last call of a create_order of the manager: the type
                                \* asked for, the exception raised or "", the order returned
    order_service,              \* the OrderService: _factory_manager (whether configured),
                                \* _active_orders (the ids), _order_queue, _completed_orders,
                                \* _orders_processed_today; and queued_with, the priority each
                                \* order was put into the queue with (the code does not keep it)
    served                      \* the last call of the service: the operation, its order,
                                \* the exception raised or "", the value returned

\* the state of the order models (src/src/models/order.py)
orderVars ==
    <<orders, total_orders_created, daily_order_count, orders_by_type, current_queue_size,
      validation>>

\* the state of the discount rules and their manager (src/src/patterns/strategy.py)
discountVars ==
    <<fpTieUp, strategies, applied_discounts_today, total_savings_today, calls, call>>

\* the state of the order tracker and its observers (src/src/patterns/observer.py)
trackerVars ==
    <<observers, is_active, notification_count, auto_notify_enabled, notification_queue,
      processing, passes, notify_calls, notified>>

\* the state of the factories and their manager (src/src/patterns/factory.py)
factoryVars ==
    <<dine_in_factory, drive_thru_factory, delivery_factory, factory_manager, created>>

\* the state of the order service (src/src/services/order_service.py)
serviceVars == <<order_service, served>>

systemVars == <<trackerVars, factoryVars, serviceVars>>

\* the state outside the discount rules and the order models
vars == <<now, discountVars, orderVars, systemVars>>

\* ------------------------------------------------------------------ bounds
\* at most MaxStrategies rules are registered; a run makes MaxCalls resolutions and
\* is not followed further
MaxStrategies == 2
MaxCalls == 1
\* a run of repeated resolutions makes MaxRepeats of them
MaxRepeats == 2
\* at most MaxOrders orders are constructed, of at most MaxItems line entries each
MaxOrders == 2
MaxItems == 2

\* ------------------------------------------------------------------ values
NoneVal == -1

Min(a, b) == IF a <= b THEN a ELSE b
Max(a, b) == IF a >= b THEN a ELSE b

RECURSIVE SumSeq(_)
SumSeq(s) == IF s = <<>> THEN 0 ELSE s[1] + SumSeq(Tail(s))

\* round(num / den, 2) for an amount of num/den cents (den > 0)
Round2(num, den) ==
    LET q == num \div den
        r == num % den
    IN  IF 2 * r > den THEN q + 1
        ELSE IF 2 * r < den THEN q
        ELSE IF fpTieUp THEN q + 1 ELSE q

UpperChars == <<"A","B","C","D","E","F","G","H","I","J","K","L","M",
                "N","O","P","Q","R","S","T","U","V","W","X","Y","Z">>
LowerChars == <<"a","b","c","d","e","f","g","h","i","j","k","l","m",
                "n","o","p","q","r","s","t","u","v","w","x","y","z">>

\* str.lower()
Lower(s) ==
    [i \in 1..Len(s) |->
        IF \E k \in 1..Len(UpperChars) : UpperChars[k] = s[i]
        THEN LowerChars[CHOOSE k \in 1..Len(UpperChars) : UpperChars[k] = s[i]]
        ELSE s[i]]

\* a in b, for two texts
IsSubstring(a, b) ==
    \E i \in 0..(Len(b) - Len(a)) : SubSeq(b, i + 1, i + Len(a)) = a

\* ------------------------------------------------------------------ inputs
\* dict.get(key, default) on a line item, whose present keys are item.keys
ItemGet(item, key, default) ==
    IF key \in item.keys
    THEN CASE key = "name" -> item.name
           [] key = "quantity" -> item.quantity
           [] key = "unit_price" -> item.unit_price
    ELSE default

\* not customer_data: None or an empty dict
NoCustomerData(customer_data) == customer_data.is_none \/ customer_data.keys = {}

\* customer_data.get('loyalty_tier', '')
TierValue(customer_data) ==
    IF "loyalty_tier" \in customer_data.keys
    THEN customer_data.loyalty_tier
    ELSE [type |-> "str", text |-> <<>>]

\* ------------------------------------------------------------------ rules
\* The dict every calculate_discount / apply_discount returns.  strategy_name is the
\* key DiscountManager adds ("" while absent); rule is the position in _strategies of
\* the strategy object that produced the dict (0: none), kept to tell apart two
\* registered rules of the same name.
Outcome(amount, type, applicable, reason) ==
    [discount_amount |-> amount, discount_type |-> type, applicable |-> applicable,
     reason |-> reason, strategy_name |-> "", rule |-> 0]

\* DiscountStrategy.__init__: valid_from defaults to the time of construction
DiscountStrategy(kind, name, valid_from, valid_until) ==
    [kind |-> kind, name |-> name,
     valid_from |-> IF valid_from = NoneVal THEN now ELSE valid_from,
     valid_until |-> valid_until,
     usage_count |-> 0, total_savings |-> 0,
     percentage |-> 0, min_order_amount |-> 0, max_discount_amount |-> NoneVal,
     discount_amount |-> 0, target_items |-> {}, discount_percentage |-> 0,
     start_time |-> 0, end_time |-> 0, weekdays_only |-> FALSE,
     tier_discounts |-> {}, combo_items |-> <<>>, combo_price |-> 0]

PercentageDiscountStrategy(name, percentage, min_order_amount, max_discount_amount, valid_from, valid_until) ==
    [DiscountStrategy("percentage", name, valid_from, valid_until) EXCEPT
        !.percentage = percentage, !.min_order_amount = min_order_amount,
        !.max_discount_amount = max_discount_amount]

FixedAmountDiscountStrategy(name, discount_amount, min_order_amount, valid_from, valid_until) ==
    [DiscountStrategy("fixed_amount", name, valid_from, valid_until) EXCEPT
        !.discount_amount = discount_amount, !.min_order_amount = min_order_amount]

BuyOneGetOneStrategy(name, target_items, discount_percentage, valid_from, valid_until) ==
    [DiscountStrategy("bogo", name, valid_from, valid_until) EXCEPT
        !.target_items = target_items, !.discount_percentage = discount_percentage]

TimeBasedDiscountStrategy(name, discount_percentage, start_time, end_time, weekdays_only, valid_from, valid_until) ==
    [DiscountStrategy("time_based", name, valid_from, valid_until) EXCEPT
        !.discount_percentage = discount_percentage, !.start_time = start_time,
        !.end_time = end_time, !.weekdays_only = weekdays_only]

LoyaltyTierDiscountStrategy(name, tier_discounts, valid_from, valid_until) ==
    [DiscountStrategy("loyalty_tier", name, valid_from, valid_until) EXCEPT
        !.tier_discounts = tier_discounts]

ComboDiscountStrategy(name, combo_items, combo_price, valid_from, valid_until) ==
    [DiscountStrategy("combo", name, valid_from, valid_until) EXCEPT
        !.combo_items = combo_items, !.combo_price = combo_price]

\* a validity check that forgets valid_until
is_valid_time_NoExpiry(s) ==
    IF s.valid_from # NoneVal /\ now < s.valid_from THEN FALSE ELSE TRUE

\* DiscountStrategy.is_valid_time
is_valid_time(s) ==
    IF s.valid_from # NoneVal /\ now < s.valid_from THEN FALSE
    ELSE IF s.valid_until # NoneVal /\ now > s.valid_until THEN FALSE
    ELSE TRUE

\* ---- PercentageDiscountStrategy
\* "if self.max_discount_amount:" is Python truthiness: None and 0 are both false
CapInForce(max_discount_amount) ==
    max_discount_amount # NoneVal /\ max_discount_amount # 0

Percentage_calculate_discount(s, order_total) ==
    LET product == order_total * s.percentage      \* in 1/100 cent
    IN  Outcome(IF CapInForce(s.max_discount_amount) /\ s.max_discount_amount * 100 < product
                THEN s.max_discount_amount
                ELSE Round2(product, 100),
                "percentage", TRUE, "percentage discount applied")

\* a percentage rule that can be used once only
Percentage_is_applicable_FirstUse(s, order_total) ==
    order_total >= s.min_order_amount /\ s.usage_count = 0

Percentage_is_applicable(s, order_total) == order_total >= s.min_order_amount

\* ---- FixedAmountDiscountStrategy
\* a fixed rule that always takes its whole amount off
Fixed_calculate_discount_NoClamp(s, order_total) ==
    Outcome(s.discount_amount, "fixed_amount", TRUE, "fixed discount applied")

Fixed_calculate_discount(s, order_total) ==
    Outcome(Min(s.discount_amount, order_total), "fixed_amount", TRUE, "fixed discount applied")

Fixed_is_applicable(s, order_total) == order_total >= s.min_order_amount

\* ---- BuyOneGetOneStrategy
\* item_counts[name]: the quantities of the entries named name, summed
RECURSIVE ItemCount(_, _)
ItemCount(order_items, name) ==
    IF order_items = <<>> THEN 0
    ELSE (IF ItemGet(order_items[1], "name", <<>>) = name
          THEN ItemGet(order_items[1], "quantity", 1) ELSE 0)
         + ItemCount(Tail(order_items), name)

\* item_prices[name]: the unit price of the last entry named name
ItemPrice(order_items, name) ==
    LET hits == {i \in 1..Len(order_items) : ItemGet(order_items[i], "name", <<>>) = name}
        last == CHOOSE i \in hits : \A j \in hits : j <= i
    IN  ItemGet(order_items[last], "unit_price", 0)

\* the keys of item_counts: names of entries that are target items
CountedNames(s, order_items) ==
    {ItemGet(order_items[i], "name", <<>>) : i \in 1..Len(order_items)} \cap s.target_items

\* a BOGO that discounts every unit, not every second one
free_items_EveryUnit(count) == count

\* "free_items = count // 2"
free_items(count) == count \div 2

RECURSIVE SumOver(_, _, _, _)
\* sum over the names of free_items * price * discount_percentage, in 1/100 cent
SumOver(names, s, order_items, acc) ==
    IF names = {} THEN acc
    ELSE LET n == CHOOSE x \in names : TRUE
             count == ItemCount(order_items, n)
             item_discount == IF count >= 2
                              THEN free_items(count) * ItemPrice(order_items, n) * s.discount_percentage
                              ELSE 0
         IN  SumOver(names \ {n}, s, order_items, acc + item_discount)

Bogo_calculate_discount(s, order_items) ==
    LET total_discount == SumOver(CountedNames(s, order_items), s, order_items, 0)
    IN  Outcome(Round2(total_discount, 100), "bogo", total_discount > 0, "BOGO applied")

\* a BOGO that is satisfied by two units of any item
Bogo_is_applicable_AnyItem(s, order_items) ==
    \E i \in 1..Len(order_items) : ItemGet(order_items[i], "quantity", 1) >= 2

Bogo_is_applicable(s, order_items) ==
    \E n \in CountedNames(s, order_items) : ItemCount(order_items, n) >= 2

\* ---- TimeBasedDiscountStrategy
TimeBased_calculate_discount(s, order_total) ==
    Outcome(Round2(order_total * s.discount_percentage, 100), "time_based", TRUE,
            "Happy Hour discount")

\* a time window that does not reach past midnight
TimeBased_is_applicable_NoWrap(s) ==
    /\ ~(s.weekdays_only /\ (now \div 24) % 7 >= 5)
    /\ s.start_time <= now % 24 /\ now % 24 <= s.end_time

TimeBased_is_applicable(s) ==
    LET current_time == now % 24
        weekday == (now \div 24) % 7
    IN  IF s.weekdays_only /\ weekday >= 5 THEN FALSE
        ELSE IF s.start_time <= s.end_time
             THEN s.start_time <= current_time /\ current_time <= s.end_time
             ELSE current_time >= s.start_time \/ current_time <= s.end_time

\* ---- LoyaltyTierDiscountStrategy
\* customer_data.get('loyalty_tier', '').lower() raises AttributeError on a value
\* that is no str
Loyalty_raises(customer_data) ==
    ~NoCustomerData(customer_data) /\ TierValue(customer_data).type # "str"

customer_tier(customer_data) == Lower(TierValue(customer_data).text)

\* self.tier_discounts.get(customer_tier, 0.0)
TierPercentage(s, tier) ==
    IF \E e \in s.tier_discounts : e.tier = tier
    THEN (CHOOSE e \in s.tier_discounts : e.tier = tier).pct
    ELSE 0

Loyalty_calculate_discount(s, order_total, customer_data) ==
    IF NoCustomerData(customer_data)
    THEN Outcome(0, "none", FALSE, "No customer data provided")
    ELSE LET discount_percentage == TierPercentage(s, customer_tier(customer_data))
         IN  IF discount_percentage = 0
             THEN Outcome(0, "none", FALSE, "No discount for tier")
             ELSE Outcome(Round2(order_total * discount_percentage, 100), "loyalty_tier",
                          TRUE, "tier discount")

Loyalty_is_applicable(s, customer_data) ==
    IF NoCustomerData(customer_data) THEN FALSE
    ELSE \E e \in s.tier_discounts : e.tier = customer_tier(customer_data)

\* ---- ComboDiscountStrategy
\* a combo that wants the very name of the required item
ComboMatch_ExactName(required_item, order_items) ==
    LET hits == {i \in 1..Len(order_items) :
                    ItemGet(order_items[i], "name", <<>>) = required_item}
    IN  IF hits = {} THEN 0 ELSE CHOOSE i \in hits : \A j \in hits : i <= j

\* the first order item whose name contains required_item, both lowered (0: none)
ComboMatch(required_item, order_items) ==
    LET hits == {i \in 1..Len(order_items) :
                    IsSubstring(Lower(required_item),
                                Lower(ItemGet(order_items[i], "name", <<>>)))}
    IN  IF hits = {} THEN 0 ELSE CHOOSE i \in hits : \A j \in hits : i <= j

\* found_items, as positions in order_items, in the order of combo_items
FoundItems(s, order_items) ==
    SelectSeq([k \in 1..Len(s.combo_items) |-> ComboMatch(s.combo_items[k], order_items)],
              LAMBDA i : i # 0)

Combo_calculate_discount(s, order_items) ==
    LET found == FoundItems(s, order_items)
        individual_total ==
            SumSeq([k \in 1..Len(found) |-> ItemGet(order_items[found[k]], "unit_price", 0)])
        savings == individual_total - s.combo_price
    IN  IF Len(found) = Len(s.combo_items)
        THEN Outcome(Max(0, Round2(savings, 1)), "combo", TRUE, "Combo meal discount applied")
        ELSE Outcome(0, "none", FALSE, "Missing combo items")

Combo_is_applicable(s, order_items) ==
    Len(FoundItems(s, order_items)) = Len(s.combo_items)

\* ---- dispatch on the concrete class
calculate_discount(s, order_total, order_items, customer_data) ==
    CASE s.kind = "percentage" -> Percentage_calculate_discount(s, order_total)
      [] s.kind = "fixed_amount" -> Fixed_calculate_discount(s, order_total)
      [] s.kind = "bogo" -> Bogo_calculate_discount(s, order_items)
      [] s.kind = "time_based" -> TimeBased_calculate_discount(s, order_total)
      [] s.kind = "loyalty_tier" -> Loyalty_calculate_discount(s, order_total, customer_data)
      [] s.kind = "combo" -> Combo_calculate_discount(s, order_items)

is_applicable(s, order_total, order_items, customer_data) ==
    CASE s.kind = "percentage" -> Percentage_is_applicable(s, order_total)
      [] s.kind = "fixed_amount" -> Fixed_is_applicable(s, order_total)
      [] s.kind = "bogo" -> Bogo_is_applicable(s, order_items)
      [] s.kind = "time_based" -> TimeBased_is_applicable(s)
      [] s.kind = "loyalty_tier" -> Loyalty_is_applicable(s, customer_data)
      [] s.kind = "combo" -> Combo_is_applicable(s, order_items)

\* is_applicable raises instead of returning
is_applicable_raises(s, customer_data) ==
    s.kind = "loyalty_tier" /\ Loyalty_raises(customer_data)

\* the end of apply_discount: the counters move when the result is applicable
Counted(s, result) ==
    [strategy |-> IF result.applicable
                  THEN [s EXCEPT !.usage_count = @ + 1,
                                 !.total_savings = @ + result.discount_amount]
                  ELSE s,
     raised |-> FALSE,
     result |-> result]

\* DiscountStrategy.apply_discount: the strategy after the call, what it returned,
\* and whether it raised instead
apply_discount(s, order_total, order_items, customer_data) ==
    IF ~is_valid_time(s)
    THEN [strategy |-> s, raised |-> FALSE,
          result |-> Outcome(0, "none", FALSE, "Discount period expired")]
    ELSE IF is_applicable_raises(s, customer_data)
    THEN [strategy |-> s, raised |-> TRUE,
          result |-> Outcome(0, "none", FALSE, "AttributeError")]
    ELSE IF ~is_applicable(s, order_total, order_items, customer_data)
    THEN [strategy |-> s, raised |-> FALSE,
          result |-> Outcome(0, "none", FALSE, "Discount not applicable to this order")]
    ELSE Counted(s, calculate_discount(s, order_total, order_items, customer_data))

\* ------------------------------------------------------------------ DiscountManager
\* a registration that replaces an earlier rule of the same name
add_strategy_ReplaceSameName(strats, strategy) ==
    Append(SelectSeq(strats, LAMBDA s : s.name # strategy.name), strategy)

\* DiscountManager.add_strategy: self._strategies.append(strategy)
add_strategy(strats, strategy) == Append(strats, strategy)

\* The dict a resolution returns: an Outcome plus all_available (best mode) and the
\* details of the stacked mode.
ManagerResult(o, all_available, applied_strategies, original_total, final_total) ==
    [discount_amount |-> o.discount_amount, discount_type |-> o.discount_type,
     applicable |-> o.applicable, reason |-> o.reason,
     strategy_name |-> o.strategy_name, rule |-> o.rule,
     all_available |-> all_available, applied_strategies |-> applied_strategies,
     original_total |-> original_total, final_total |-> final_total]

\* best_discount as calculate_best_discount initialises it
NoDiscount ==
    [Outcome(0, "none", FALSE, "No applicable discounts") EXCEPT !.strategy_name = "none"]

\* a resolver that keeps the first applicable rule it meets
Better_FirstApplicable(discount_result, best_discount) ==
    ~best_discount.applicable

\* "if discount_result['discount_amount'] > best_discount['discount_amount']"
Better(discount_result, best_discount) ==
    discount_result.discount_amount > best_discount.discount_amount

RECURSIVE BestLoop(_, _, _, _, _, _, _)
\* one pass of the loop: a is what apply_discount answered for the i-th strategy
BestStep(i, strats, best_discount, available_discounts, order_total, order_items, customer_data, a) ==
    IF a.raised
    THEN [strategies |-> [strats EXCEPT ![i] = a.strategy], raised |-> TRUE,
          best |-> best_discount, available |-> available_discounts]
    ELSE IF a.result.applicable
    THEN BestLoop(i + 1, [strats EXCEPT ![i] = a.strategy],
                  IF Better(a.result, best_discount)
                  THEN [a.result EXCEPT !.strategy_name = strats[i].name, !.rule = i]
                  ELSE best_discount,
                  Append(available_discounts,
                         [a.result EXCEPT !.strategy_name = strats[i].name, !.rule = i]),
                  order_total, order_items, customer_data)
    ELSE BestLoop(i + 1, [strats EXCEPT ![i] = a.strategy], best_discount,
                  available_discounts, order_total, order_items, customer_data)

\* "for strategy in self._strategies" of calculate_best_discount, from position i on
BestLoop(i, strats, best_discount, available_discounts, order_total, order_items, customer_data) ==
    IF i > Len(strats)
    THEN [strategies |-> strats, raised |-> FALSE, best |-> best_discount,
          available |-> available_discounts]
    ELSE BestStep(i, strats, best_discount, available_discounts, order_total, order_items,
                  customer_data,
                  apply_discount(strats[i], order_total, order_items, customer_data))

\* the statistics update and the return of calculate_best_discount, l being what the
\* loop left (result is meaningless when raised)
BestReturn(l, order_total) ==
    [strategies |-> l.strategies,
     raised |-> l.raised,
     applied |-> IF ~l.raised /\ l.best.applicable
                 THEN applied_discounts_today + 1 ELSE applied_discounts_today,
     savings |-> IF ~l.raised /\ l.best.applicable
                 THEN total_savings_today + l.best.discount_amount
                 ELSE total_savings_today,
     result |-> ManagerResult(l.best, l.available, <<>>, order_total, order_total)]

\* DiscountManager.calculate_best_discount: the manager after the call and what it
\* returned
calculate_best_discount(strats, order_total, order_items, customer_data) ==
    BestReturn(BestLoop(1, strats, NoDiscount, <<>>, order_total, order_items, customer_data),
               order_total)

\* a stacked mode that evaluates every rule against the original total
StackedInput_Original(order_total, current_total) == order_total

\* the total a stacked rule is evaluated against: apply_discount(current_total, ...)
StackedInput(order_total, current_total) == current_total

\* a stacked mode that forgets to subtract the discount from the running total
NextTotal_Unchanged(current_total, discount_amount) == current_total

\* "current_total -= discount_amount"
NextTotal(current_total, discount_amount) == current_total - discount_amount

RECURSIVE StackLoop(_, _, _, _, _, _, _, _)
\* one pass of the loop: a is what apply_discount answered for the i-th strategy
StackStep(i, strats, total_discount, applied_strategies, current_total, order_total, order_items, customer_data, a) ==
    IF a.raised
    THEN [strategies |-> [strats EXCEPT ![i] = a.strategy], raised |-> TRUE,
          total_discount |-> total_discount, applied_strategies |-> applied_strategies,
          current_total |-> current_total]
    ELSE IF a.result.applicable
    THEN StackLoop(i + 1, [strats EXCEPT ![i] = a.strategy],
                   total_discount + a.result.discount_amount,
                   Append(applied_strategies,
                          [strategy |-> strats[i].name, discount |-> a.result.discount_amount,
                           type |-> a.result.discount_type, rule |-> i]),
                   NextTotal(current_total, a.result.discount_amount),
                   order_total, order_items, customer_data)
    ELSE StackLoop(i + 1, [strats EXCEPT ![i] = a.strategy], total_discount,
                   applied_strategies, current_total, order_total, order_items, customer_data)

\* "for strategy in self._strategies" of calculate_multiple_discounts, from position i on
StackLoop(i, strats, total_discount, applied_strategies, current_total, order_total, order_items, customer_data) ==
    IF i > Len(strats)
    THEN [strategies |-> strats, raised |-> FALSE, total_discount |-> total_discount,
          applied_strategies |-> applied_strategies, current_total |-> current_total]
    ELSE StackStep(i, strats, total_discount, applied_strategies, current_total, order_total,
                   order_items, customer_data,
                   apply_discount(strats[i], StackedInput(order_total, current_total),
                                  order_items, customer_data))

\* the return of calculate_multiple_discounts, l being what the loop left; the rule
\* field of an applied_strategies entry is the position of its strategy
StackReturn(l, order_total) ==
    [strategies |-> l.strategies,
     raised |-> l.raised,
     applied |-> applied_discounts_today,
     savings |-> total_savings_today,
     result |-> ManagerResult(
         [Outcome(Round2(l.total_discount, 1), "stacked", Len(l.applied_strategies) > 0,
                  "Stacked discounts") EXCEPT !.strategy_name = "multiple"],
         <<>>, l.applied_strategies, order_total, l.current_total)]

\* DiscountManager.calculate_multiple_discounts with allow_stacking=True
calculate_multiple_discounts(strats, order_total, order_items, customer_data) ==
    StackReturn(StackLoop(1, strats, 0, <<>>, order_total, order_total, order_items,
                          customer_data),
                order_total)

\* ------------------------------------------------------------------ sample data
Fries == <<"F","r","i","e","s">>
FriesLarge == <<"F","r","i","e","s","L">>
BigMac == <<"B","i","g","M","a","c">>

Item(name, quantity, unit_price) ==
    [keys |-> {"name", "quantity", "unit_price"},
     name |-> name, quantity |-> quantity, unit_price |-> unit_price]

\* a line item that lacks name, quantity and unit_price
BareItem == [keys |-> {}, name |-> <<>>, quantity |-> 0, unit_price |-> 0]

\* two entries of the same item, one unit each
TwoFries == <<Item(Fries, 1, 249), Item(Fries, 1, 249)>>
Meal == <<Item(BigMac, 1, 499), Item(FriesLarge, 1, 299), BareItem>>

ItemLists == {<<>>, TwoFries, Meal}
OrderTotals == {0, 100, 2000, 5000}

Customer(keys, type, text) ==
    [is_none |-> FALSE, keys |-> keys, loyalty_tier |-> [type |-> type, text |-> text]]

NoneCustomer == [is_none |-> TRUE, keys |-> {}, loyalty_tier |-> [type |-> "str", text |-> <<>>]]
EmptyCustomer == Customer({}, "str", <<>>)
RegularCustomer == Customer({"customer_type"}, "str", <<>>)
GoldCustomer == Customer({"customer_type", "loyalty_tier"}, "str", <<"G","o","l","d">>)
\* loyalty_tier holds a number, not a text
NumberTierCustomer == Customer({"loyalty_tier"}, "int", <<>>)

Customers == {NoneCustomer, EmptyCustomer, RegularCustomer, GoldCustomer, NumberTierCustomer}

\* the instants the clock is observed at: Fri 15:00, Fri 20:00, Sat 15:00
ClockInstants == {4 * 24 + 15, 4 * 24 + 20, 5 * 24 + 15}

\* the rules a caller registers, constructed at the time of registration
Catalog ==
    <<PercentageDiscountStrategy("Ten Percent", 10, 0, NoneVal, NoneVal, NoneVal),
      PercentageDiscountStrategy("Student Discount", 15, 1000, 500, NoneVal, NoneVal),
      PercentageDiscountStrategy("Capped At Zero", 20, 0, 0, NoneVal, NoneVal),
      FixedAmountDiscountStrategy("First Order Special", 300, 1500, NoneVal, NoneVal),
      FixedAmountDiscountStrategy("Two Off", 200, 0, NoneVal, NoneVal),
      BuyOneGetOneStrategy("Fries BOGO", {Fries}, 50, NoneVal, NoneVal),
      TimeBasedDiscountStrategy("Happy Hour", 20, 14, 17, TRUE, NoneVal, NoneVal),
      LoyaltyTierDiscountStrategy("Loyalty Tiers",
          {[tier |-> <<"g","o","l","d">>, pct |-> 12],
           [tier |-> <<"b","r","o","n","z","e">>, pct |-> 5]}, NoneVal, NoneVal),
      ComboDiscountStrategy("Big Mac Combo", <<BigMac, Fries>>, 899, NoneVal, NoneVal),
      PercentageDiscountStrategy("Limited Offer", 50, 0, NoneVal, 4 * 24 + 20, 5 * 24)>>

\* ------------------------------------------------------------------ orders
\* src/src/models/order.py.  An order is a record; fields of one subclass hold
\* NoneVal in the objects of the other.
OrderClasses == {"DineInOrder", "DriveThruOrder", "DeliveryOrder"}

\* DriveThruOrder.max_queue_size
max_queue_size == 10

\* Order.calculate_tax with the default tax_rate 0.08: round(subtotal * 0.08, 2)
calculate_tax(subtotal) == Round2(subtotal * 8, 100)

\* Order.estimate_prep_time, the complexity factor given in tenths
estimate_prep_time(item_count, complexity_tenths) ==
    Min((Max(3, item_count * 2) * complexity_tenths) \div 10, 30)

\* Order.items_count
items_count(o) == SumSeq([k \in 1..Len(o.items) |-> o.items[k].quantity])

\* get_service_fee of DineInOrder and of DriveThruOrder
get_service_fee(o) == 0

\* Order._calculate_totals
calculate_totals(o) ==
    LET subtotal == SumSeq([k \in 1..Len(o.items) |-> o.items[k].total_price])
        discounted_subtotal == Max(0, subtotal + get_service_fee(o) - o.discount_amount)
    IN  [o EXCEPT !.subtotal = subtotal,
                  !.tax_amount = calculate_tax(discounted_subtotal),
                  !.total_amount = discounted_subtotal + calculate_tax(discounted_subtotal)
                                   + o.tip_amount,
                  !.estimated_prep_time =
                      estimate_prep_time(items_count(o), 10 + Len(o.items))]

\* Order.__init__, for the order_id number n
Order(class, n) ==
    [class |-> class, order_id |-> n, order_time |-> now,
     status |-> "pending", payment_status |-> "pending", items |-> <<>>,
     subtotal |-> 0, tax_amount |-> 0, discount_amount |-> 0, tip_amount |-> 0,
     total_amount |-> 0, estimated_prep_time |-> 0,
     table_number |-> NoneVal, party_size |-> NoneVal,
     queue_position |-> NoneVal, window_number |-> NoneVal]

\* DineInOrder.__init__
DineInOrder(n, table_number, party_size) ==
    [Order("DineInOrder", n) EXCEPT !.table_number = table_number, !.party_size = party_size]

\* DriveThruOrder.__init__, past the check of the queue
DriveThruOrder(n) ==
    [Order("DriveThruOrder", n) EXCEPT !.queue_position = current_queue_size + 1,
                                       !.window_number = 1]

\* validate_order: the reason of the InvalidOrderException it raises, "" when it
\* returns True
DineIn_validate_order(o) ==
    IF o.table_number <= 0 THEN "Invalid table number"
    ELSE IF o.party_size <= 0 THEN "Invalid party size"
    ELSE IF Len(o.items) = 0 THEN "Order cannot be empty"
    ELSE ""

DriveThru_validate_order(o) ==
    IF Len(o.items) = 0 THEN "Order cannot be empty"
    ELSE IF items_count(o) > 15 THEN "Drive-Thru orders limited to 15 items"
    ELSE ""

validate_order(o) ==
    IF o.class = "DineInOrder" THEN DineIn_validate_order(o) ELSE DriveThru_validate_order(o)

NoValidation == [order |-> 0, subject |-> Order("none", 0), raised |-> FALSE, reason |-> ""]

\* the arguments the orders are constructed and filled with
TableNumbers == {0, 5}
PartySizes == {0, 2}
ItemQuantities == {0, 1, 16}

\* the class attributes after Order.__init__ ran for an object of class
Counted_order(class) ==
    /\ total_orders_created' = total_orders_created + 1
    /\ daily_order_count' = daily_order_count + 1
    /\ orders_by_type' = [orders_by_type EXCEPT ![class] = @ + 1]

\* DineInOrder(customer_id, table_number, party_size)
NewDineInOrder ==
    /\ Len(orders) < MaxOrders
    /\ \E table_number \in TableNumbers, party_size \in PartySizes :
          orders' = Append(orders, DineInOrder(total_orders_created + 1, table_number, party_size))
    /\ Counted_order("DineInOrder")
    /\ UNCHANGED <<systemVars, now, discountVars, current_queue_size, validation>>

\* DriveThruOrder(customer_id, vehicle_type): raises DriveThruQueueFullException, and
\* changes nothing, when the queue is full
NewDriveThruOrder ==
    /\ Len(orders) < MaxOrders
    /\ IF current_queue_size >= max_queue_size
       THEN UNCHANGED vars
       ELSE /\ orders' = Append(orders, DriveThruOrder(total_orders_created + 1))
            /\ Counted_order("DriveThruOrder")
            /\ current_queue_size' = current_queue_size + 1
            /\ UNCHANGED <<systemVars, now, discountVars, validation>>

\* order.add_item(item_name, quantity, price): raises ValueError, and changes nothing,
\* for a quantity that is not positive
AddItem ==
    \E i \in 1..Len(orders), quantity \in ItemQuantities :
        /\ Len(orders[i].items) < MaxItems
        /\ IF quantity <= 0
           THEN UNCHANGED vars
           ELSE /\ orders' = [orders EXCEPT ![i] =
                       calculate_totals([@ EXCEPT !.items =
                           Append(@, [name |-> Fries, quantity |-> quantity, unit_price |-> 249,
                                      total_price |-> 249 * quantity])])]
                /\ UNCHANGED <<systemVars, now, discountVars, total_orders_created, daily_order_count,
                               orders_by_type, current_queue_size, validation>>

\* order.validate_order()
ValidateOrder ==
    /\ \E i \in 1..Len(orders) :
          validation' = [order |-> i, subject |-> orders[i],
                         raised |-> validate_order(orders[i]) # "",
                         reason |-> validate_order(orders[i])]
    /\ UNCHANGED <<systemVars, now, discountVars, orders, total_orders_created, daily_order_count,
                   orders_by_type, current_queue_size>>

OrderNext == NewDineInOrder \/ NewDriveThruOrder \/ AddItem \/ ValidateOrder

\* ------------------------------------------------------------------ the order tracker
\* src/src/patterns/observer.py.  The three observers of the model, one of each concrete
\* class: a KitchenDisplayObserver, a CustomerMobileObserver of customer MobileCustomer
\* and a DriveThruObserver.
ObserverIds == {"kitchen", "mobile", "drive_thru"}
MobileCustomer == "CUST000001"

\* a notify() makes MaxNotifications calls at most from outside the tracker
MaxNotifications == 2

\* the argument of notify: the type and the two entries of data that the observers read
Notification(type, customer_id, order_type) ==
    [type |-> type, customer_id |-> customer_id, order_type |-> order_type]

\* data without a customer_id or an order_type has "" there (data.get gives None, and
\* both are tested for truth or compared with a non-empty text only)
Notifications ==
    { Notification("order_created", MobileCustomer, "drive_thru"),
      Notification("order_ready", "CUST000002", "takeout"),
      Notification("kitchen_alert", "", ""),
      Notification("staff_alert", "", "") }

\* observer.is_interested_in(type, data) of the kitchen display, of the mobile app (not
\* when data names another customer) and of the drive-thru lane
is_interested_in(o, n) ==
    CASE o = "kitchen" ->
            n.type \in {"order_confirmed", "order_in_preparation", "order_ready",
                        "order_completed", "kitchen_alert"}
      [] o = "mobile" ->
            /\ ~(n.customer_id # "" /\ n.customer_id # MobileCustomer)
            /\ n.type \in {"order_created", "order_confirmed", "order_in_preparation",
                           "order_ready", "order_completed", "order_cancelled",
                           "payment_processed", "payment_failed"}
      [] OTHER ->
            /\ n.type \in {"order_created", "order_ready", "order_completed",
                           "drive_thru_alert"}
            /\ (n.order_type = "drive_thru" \/ n.type = "drive_thru_alert")

\* the observers whose update() a broadcast of n calls, were every attached observer
\* taken whether active or not
updated_observers_IgnoringActive(n) ==
    {o \in observers : is_interested_in(o, n)}

\* the observers whose update() a broadcast of n calls: the loop of notify over
\* self._observers
updated_observers(n) ==
    {o \in observers : is_active[o] /\ is_interested_in(o, n)}

\* OrderTracker.notify(n), called when the queue is queue: with auto-notify off the
\* notification is queued and nothing else happens; otherwise every observer that is
\* updated has its notification_count raised (no update() of the three classes raises)
notify(n, queue) ==
    /\ IF ~auto_notify_enabled
       THEN /\ notification_queue' = Append(queue, n)
            /\ UNCHANGED notification_count
       ELSE /\ notification_queue' = queue
            /\ notification_count' =
                  [o \in ObserverIds |->
                      IF o \in updated_observers(n) THEN notification_count[o] + 1
                      ELSE notification_count[o]]
    /\ UNCHANGED <<observers, is_active, auto_notify_enabled>>

\* tracker.attach(observer)
Attach ==
    /\ ~processing
    /\ \E o \in ObserverIds : observers' = observers \cup {o}
    /\ UNCHANGED <<is_active, notification_count, auto_notify_enabled, notification_queue,
                   processing, passes, notify_calls, notified>>
    /\ UNCHANGED <<now, discountVars, orderVars, factoryVars, serviceVars>>

\* tracker.detach(observer)
Detach ==
    /\ ~processing
    /\ \E o \in ObserverIds : observers' = observers \ {o}
    /\ UNCHANGED <<is_active, notification_count, auto_notify_enabled, notification_queue,
                   processing, passes, notify_calls, notified>>
    /\ UNCHANGED <<now, discountVars, orderVars, factoryVars, serviceVars>>

\* observer.set_active(active)
SetActive ==
    /\ ~processing
    /\ \E o \in ObserverIds, active \in BOOLEAN : is_active' = [is_active EXCEPT ![o] = active]
    /\ UNCHANGED <<observers, notification_count, auto_notify_enabled, notification_queue,
                   processing, passes, notify_calls, notified>>
    /\ UNCHANGED <<now, discountVars, orderVars, factoryVars, serviceVars>>

\* the tracker's _auto_notify_enabled is switched (the field has no setter: it is assigned)
SetAutoNotify ==
    /\ ~processing
    /\ auto_notify_enabled' = ~auto_notify_enabled
    /\ UNCHANGED <<observers, is_active, notification_count, notification_queue, processing,
                   passes, notify_calls, notified>>
    /\ UNCHANGED <<now, discountVars, orderVars, factoryVars, serviceVars>>

\* tracker.notify(type, data), called from outside the tracker
Notify ==
    /\ ~processing
    /\ notify_calls < MaxNotifications
    /\ \E n \in Notifications :
          /\ notified' = n
          /\ notify(n, notification_queue)
    /\ notify_calls' = notify_calls + 1
    /\ UNCHANGED <<processing, passes>>
    /\ UNCHANGED <<now, discountVars, orderVars, factoryVars, serviceVars>>

\* tracker.process_notification_queue() is called: control reaches the test of its loop
ProcessNotificationQueue ==
    /\ ~processing
    /\ processing' = TRUE
    /\ passes' = 0
    /\ UNCHANGED <<observers, is_active, notification_count, auto_notify_enabled,
                   notification_queue, notify_calls, notified>>
    /\ UNCHANGED <<now, discountVars, orderVars, factoryVars, serviceVars>>

\* one pass of `while self._notification_queue:`: the head is popped and handed to
\* notify; an empty queue ends the loop and the call returns
ProcessStep ==
    /\ processing
    /\ IF notification_queue = <<>>
       THEN /\ processing' = FALSE
            /\ UNCHANGED <<observers, is_active, notification_count, auto_notify_enabled,
                           notification_queue, passes>>
       ELSE /\ notify(Head(notification_queue), Tail(notification_queue))
            /\ passes' = (passes + 1) % 2
            /\ UNCHANGED processing
    /\ UNCHANGED <<notify_calls, notified>>
    /\ UNCHANGED <<now, discountVars, orderVars, factoryVars, serviceVars>>

TrackerNext ==
    Attach \/ Detach \/ SetActive \/ SetAutoNotify \/ Notify \/ ProcessNotificationQueue
    \/ ProcessStep

\* ------------------------------------------------------------------ the order factories
\* src/src/patterns/factory.py: one factory object of each concrete class, and the
\* OrderFactoryManager.  A dictionary is a function on its keys.  Order ids are the
\* values of Order.total_orders_created, so the order with id n is orders[n].  The
\* factories are called with the default vehicle type, distance (inside the delivery
\* radius) and is_express = False.
OrderTypes == {"dine_in", "drive_thru", "delivery"}

\* DriveThruOrderFactory._max_queue_per_lane
max_queue_per_lane == 10

\* order.get_order_type()
get_order_type(o) ==
    CASE o.class = "DineInOrder" -> "dine_in"
      [] o.class = "DriveThruOrder" -> "drive_thru"
      [] OTHER -> "delivery"

\* del d[k]
Without(d, k) == [x \in DOMAIN d \ {k} |-> d[x]]

\* the lowest of the tables that is not occupied, 0 when all are
FirstFree(tables) ==
    IF tables \subseteq DOMAIN dine_in_factory.occupied_tables THEN 0
    ELSE CHOOSE t \in tables \ DOMAIN dine_in_factory.occupied_tables :
            \A u \in tables \ DOMAIN dine_in_factory.occupied_tables : t <= u

\* DineInOrderFactory._assign_table
assign_table(party_size) ==
    IF party_size <= 2 /\ FirstFree(1..20) # 0 THEN FirstFree(1..20)
    ELSE IF party_size > 2 /\ party_size <= 4 /\ FirstFree(21..40) # 0 THEN FirstFree(21..40)
    ELSE IF party_size > 4 /\ FirstFree(41..60) # 0 THEN FirstFree(41..60)
    ELSE FirstFree(1..dine_in_factory.seating_capacity)

\* DriveThruOrderFactory._assign_lane(False): the first of the shortest lanes with room,
\* 0 when every lane is full
assign_lane ==
    LET open == {l \in DOMAIN drive_thru_factory.lane_queues :
                    Len(drive_thru_factory.lane_queues[l]) < max_queue_per_lane}
    IN  IF open = {} THEN 0
        ELSE CHOOSE l \in open :
                \A m \in open :
                    \/ Len(drive_thru_factory.lane_queues[l]) < Len(drive_thru_factory.lane_queues[m])
                    \/ /\ Len(drive_thru_factory.lane_queues[l]) = Len(drive_thru_factory.lane_queues[m])
                       /\ l <= m

\* DeliveryOrderFactory._assign_driver: the first available driver, "" for None
assign_driver ==
    IF delivery_factory.available_drivers = <<>> THEN ""
    ELSE delivery_factory.available_drivers[1]

\* the order after the caller added menu_items to it with add_item
Filled(o, menu_items) ==
    IF menu_items = <<>> THEN o ELSE calculate_totals([o EXCEPT !.items = menu_items])

\* a call for an order of type t ends with the exception e: nothing was constructed
Raised(t, e) ==
    /\ created' = [order_type |-> t, raised |-> e, order_id |-> 0]
    /\ UNCHANGED <<orders, total_orders_created, daily_order_count, orders_by_type,
                   current_queue_size, dine_in_factory, drive_thru_factory, delivery_factory>>

\* a call for an order of type t constructed the order o and returns it
Constructed(t, o) ==
    /\ orders' = Append(orders, o)
    /\ Counted_order(o.class)
    /\ created' = [order_type |-> t, raised |-> "", order_id |-> o.order_id]

\* DineInOrderFactory.create_order(party_size=, table_number=)
DineIn_create_order(t, table, party_size, menu_items) ==
    IF table = 0 \/ table \in DOMAIN dine_in_factory.occupied_tables
    THEN Raised(t, "InvalidOrderException")
    ELSE /\ Constructed(t, Filled(DineInOrder(total_orders_created + 1, table, party_size),
                                  menu_items))
         /\ dine_in_factory' =
               [dine_in_factory EXCEPT
                   !.occupied_tables = (table :> (total_orders_created + 1)) @@ @,
                   !.table_assignments = ((total_orders_created + 1) :> table) @@ @,
                   !.orders_created = @ + 1]
         /\ UNCHANGED <<current_queue_size, drive_thru_factory, delivery_factory>>

\* DriveThruOrderFactory.create_order(): the factory raises when no lane has room, the
\* constructor of DriveThruOrder when the queue of the class is full
DriveThru_create_order(t, lane, menu_items) ==
    IF lane = 0 \/ current_queue_size >= max_queue_size
    THEN Raised(t, "DriveThruQueueFullException")
    ELSE /\ Constructed(t, Filled(DriveThruOrder(total_orders_created + 1), menu_items))
         /\ current_queue_size' = current_queue_size + 1
         /\ drive_thru_factory' =
               [drive_thru_factory EXCEPT
                   !.lane_queues[lane] = Append(@, total_orders_created + 1),
                   !.lane_assignments = ((total_orders_created + 1) :> lane) @@ @,
                   !.orders_created = @ + 1]
         /\ UNCHANGED <<dine_in_factory, delivery_factory>>

\* DeliveryOrderFactory.create_order()
Delivery_create_order(t, driver_id, menu_items) ==
    /\ Constructed(t, Filled(Order("DeliveryOrder", total_orders_created + 1), menu_items))
    /\ delivery_factory' =
          [delivery_factory EXCEPT
              !.driver_assignments =
                  IF driver_id # "" THEN ((total_orders_created + 1) :> driver_id) @@ @ ELSE @,
              !.orders_created = @ + 1]
    /\ UNCHANGED <<current_queue_size, dine_in_factory, drive_thru_factory>>

\* the manager's look-up, were the factory taken by the first registration found
factory_for_AnyRegistered(t) ==
    IF factory_manager.factories[t] = "none" THEN "none"
    ELSE factory_manager.factories[
            CHOOSE u \in OrderTypes : factory_manager.factories[u] # "none"]

\* self._factories[order_type], "none" when order_type is not in it
factory_for(t) == factory_manager.factories[t]

\* OrderFactoryManager.create_order(t, customer_id, **kw), the order then given menu_items
Manager_create_order(t, kw, menu_items) ==
    /\ CASE factory_for(t) = "none" -> Raised(t, "InvalidOrderException")
         [] factory_for(t) = "DineInOrderFactory" ->
               DineIn_create_order(t, IF kw.table_number = 0 THEN assign_table(kw.party_size)
                                      ELSE kw.table_number, kw.party_size, menu_items)
         [] factory_for(t) = "DriveThruOrderFactory" ->
               DriveThru_create_order(t, assign_lane, menu_items)
         [] OTHER -> Delivery_create_order(t, assign_driver, menu_items)
    /\ factory_manager' =
          IF created'.raised = "" THEN [factory_manager EXCEPT !.factory_stats[t] = @ + 1]
          ELSE factory_manager

\* manager.register_factory(order_type, factory)
RegisterFactory(types, classes) ==
    /\ \E t \in types, f \in classes :
          factory_manager' = [factory_manager EXCEPT !.factories[t] = f,
                                                     !.factory_stats[t] = 0]
    /\ UNCHANGED <<dine_in_factory, drive_thru_factory, delivery_factory, created>>
    /\ UNCHANGED <<now, discountVars, orderVars, trackerVars, serviceVars>>

\* manager.create_order(order_type, customer_id, party_size=, table_number=)
ManagerCreateOrder ==
    /\ Len(orders) < MaxOrders
    /\ \E t \in OrderTypes, party_size \in {2, 5}, table_number \in {0, 7} :
          Manager_create_order(t, [party_size |-> party_size, table_number |-> table_number],
                               <<>>)
    /\ UNCHANGED <<now, discountVars, validation, trackerVars, serviceVars>>

\* dine_in_factory.release_table(order_id)
ReleaseTable ==
    /\ \E order_id \in 1..Len(orders) :
          dine_in_factory' =
              IF order_id \in DOMAIN dine_in_factory.table_assignments
              THEN [dine_in_factory EXCEPT
                       !.occupied_tables = Without(@, dine_in_factory.table_assignments[order_id]),
                       !.table_assignments = Without(@, order_id)]
              ELSE dine_in_factory
    /\ UNCHANGED <<drive_thru_factory, delivery_factory, factory_manager, created>>
    /\ UNCHANGED <<now, discountVars, orderVars, trackerVars, serviceVars>>

\* drive_thru_factory.complete_order(order_id), for the orders in ids
CompleteOrder(ids) ==
    /\ \E order_id \in ids :
          drive_thru_factory' =
              IF order_id \in DOMAIN drive_thru_factory.lane_assignments
              THEN [drive_thru_factory EXCEPT
                       !.lane_queues[drive_thru_factory.lane_assignments[order_id]] =
                           SelectSeq(@, LAMBDA x : x # order_id),
                       !.lane_assignments = Without(@, order_id)]
              ELSE drive_thru_factory
    /\ UNCHANGED <<dine_in_factory, delivery_factory, factory_manager, created>>
    /\ UNCHANGED <<now, discountVars, orderVars, trackerVars, serviceVars>>

\* delivery_factory.add_driver(driver_id)
AddDriver ==
    /\ \E driver_id \in {"D1", "D2"} :
          delivery_factory' =
              IF \E k \in 1..Len(delivery_factory.available_drivers) :
                    delivery_factory.available_drivers[k] = driver_id
              THEN delivery_factory
              ELSE [delivery_factory EXCEPT !.available_drivers = Append(@, driver_id)]
    /\ UNCHANGED <<dine_in_factory, drive_thru_factory, factory_manager, created>>
    /\ UNCHANGED <<now, discountVars, orderVars, trackerVars, serviceVars>>

\* delivery_factory.remove_driver(driver_id)
RemoveDriver ==
    /\ \E driver_id \in {"D1", "D2"} :
          delivery_factory' =
              [delivery_factory EXCEPT
                  !.available_drivers = SelectSeq(@, LAMBDA d : d # driver_id)]
    /\ UNCHANGED <<dine_in_factory, drive_thru_factory, factory_manager, created>>
    /\ UNCHANGED <<now, discountVars, orderVars, trackerVars, serviceVars>>

\* delivery_factory.complete_delivery(order_id)
CompleteDelivery ==
    /\ \E order_id \in 1..Len(orders) :
          delivery_factory' =
              IF order_id \in DOMAIN delivery_factory.driver_assignments
              THEN [delivery_factory EXCEPT
                       !.driver_assignments = Without(@, order_id),
                       !.available_drivers =
                           IF \E k \in 1..Len(@) :
                                 @[k] = delivery_factory.driver_assignments[order_id]
                           THEN @
                           ELSE Append(@, delivery_factory.driver_assignments[order_id])]
              ELSE delivery_factory
    /\ UNCHANGED <<dine_in_factory, drive_thru_factory, factory_manager, created>>
    /\ UNCHANGED <<now, discountVars, orderVars, trackerVars, serviceVars>>

\* dine-in and delivery orders: either factory may be registered for either type
FactoryNext ==
    \/ RegisterFactory({"dine_in", "delivery"}, {"DineInOrderFactory", "DeliveryOrderFactory"})
    \/ ManagerCreateOrder
    \/ ReleaseTable
    \/ AddDriver
    \/ RemoveDriver
    \/ CompleteDelivery

\* ------------------------------------------------------------------ the order service
\* src/src/services/order_service.py: an OrderService that may have a factory manager
\* configured and has no discount manager and no order tracker.  Priorities are the
\* values of the service's OrderPriority: NORMAL 2, HIGH 3, URGENT 4.
max_active_orders == 50

\* a run of the drive-thru lane constructs MaxDriveThruOrders orders at most
MaxDriveThruOrders == 11
MaxCancelled == 1

\* OrderService._calculate_order_priority(order, {'customer_type': customer_type}); an
\* order older than 15 minutes is one of an earlier instant of the clock
calculate_order_priority(o, customer_type) ==
    IF now > o.order_time \/ customer_type = "vip" THEN 4
    ELSE IF customer_type = "loyalty_member" \/ o.class = "DeliveryOrder" \/ items_count(o) > 10
         THEN 3
    ELSE 2

\* OrderService._add_to_priority_queue, the orders being os: the queue with order_id put
\* before the first queued order whose priority, computed anew without customer data, is
\* below priority, or at the end
add_to_priority_queue(queue, os, order_id, priority) ==
    LET below == {i \in 1..Len(queue) : priority > calculate_order_priority(os[queue[i]], "")}
        position == IF below = {} THEN Len(queue) + 1
                    ELSE CHOOSE i \in below : \A j \in below : i <= j
    IN  SubSeq(queue, 1, position - 1) \o <<order_id>> \o SubSeq(queue, position, Len(queue))

\* `order_id in self._active_orders`, were every order ever constructed taken as active
is_active_order_Known(order_id) == order_id \in 1..Len(orders)

\* `order_id in self._active_orders`
is_active_order(order_id) == order_id \in order_service.active_orders

\* OrderService.update_order_status(order_id, new_status), called as op
update_order_status(op, order_id, new_status) ==
    IF ~is_active_order(order_id)
    THEN /\ served' = [op |-> op, order_id |-> order_id, raised |-> "", returned |-> FALSE]
         /\ UNCHANGED <<orders, order_service>>
    ELSE /\ served' = [op |-> op, order_id |-> order_id, raised |-> "", returned |-> TRUE]
         /\ orders' = [orders EXCEPT ![order_id].status = new_status]
         /\ order_service' =
               IF new_status \in {"completed", "cancelled"}
               THEN [order_service EXCEPT
                        !.active_orders = @ \ {order_id},
                        !.order_queue = SelectSeq(@, LAMBDA x : x # order_id),
                        !.completed_orders =
                            IF new_status = "completed" THEN Append(@, order_id) ELSE @,
                        !.orders_processed_today =
                            IF new_status = "completed" THEN @ + 1 ELSE @]
               ELSE order_service

\* service.configure_factory_manager(factory_manager)
ConfigureFactoryManager ==
    /\ order_service' = [order_service EXCEPT !.factory_manager = TRUE]
    /\ UNCHANGED <<now, discountVars, orderVars, trackerVars, factoryVars, served>>

\* service.create_order(order_type, customer_id, menu_items, customer_data=): menu_items
\* is None or a list of quantities of Fries; validate_order rejects an order without
\* items, without a positive total, or one that the order's own validate_order rejects
ServiceCreateOrder(types, customer_types, quantities, limit) ==
    /\ Len(orders) < limit
    /\ \E t \in types, customer_type \in customer_types, quantity \in quantities :
          IF Cardinality(order_service.active_orders) >= max_active_orders
             \/ ~order_service.factory_manager
          THEN /\ served' = [op |-> "create_order", order_id |-> 0, returned |-> FALSE,
                             raised |-> IF ~order_service.factory_manager
                                           /\ Cardinality(order_service.active_orders)
                                                  < max_active_orders
                                        THEN "FACTORY_NOT_CONFIGURED"
                                        ELSE "ORDER_LIMIT_EXCEEDED"]
               /\ UNCHANGED <<orders, total_orders_created, daily_order_count, orders_by_type,
                              current_queue_size, factoryVars, order_service>>
          ELSE /\ Manager_create_order(t, [party_size |-> 2, table_number |-> 0],
                      IF quantity = 0 THEN <<>>
                      ELSE <<[name |-> Fries, quantity |-> quantity, unit_price |-> 249,
                              total_price |-> 249 * quantity]>>)
               /\ IF created'.raised # ""
                  THEN /\ served' = [op |-> "create_order", order_id |-> 0,
                                     returned |-> FALSE, raised |-> created'.raised]
                       /\ UNCHANGED order_service
                  ELSE IF \/ items_count(orders'[created'.order_id]) = 0
                          \/ orders'[created'.order_id].total_amount <= 0
                          \/ validate_order(orders'[created'.order_id]) # ""
                  THEN /\ served' = [op |-> "create_order", order_id |-> created'.order_id,
                                     returned |-> FALSE, raised |-> "VALIDATION_FAILED"]
                       /\ UNCHANGED order_service
                  ELSE /\ served' = [op |-> "create_order", order_id |-> created'.order_id,
                                     returned |-> TRUE, raised |-> ""]
                       /\ order_service' =
                             [order_service EXCEPT
                                 !.active_orders = @ \cup {created'.order_id},
                                 !.order_queue =
                                     add_to_priority_queue(@, orders', created'.order_id,
                                         calculate_order_priority(orders'[created'.order_id],
                                                                  customer_type)),
                                 !.queued_with =
                                     (created'.order_id :>
                                         calculate_order_priority(orders'[created'.order_id],
                                                                  customer_type)) @@ @]
    /\ UNCHANGED <<now, discountVars, validation, trackerVars>>

\* service.update_order_status(order_id, new_status)
UpdateOrderStatus(ids, statuses) ==
    /\ \E order_id \in ids, new_status \in statuses :
          update_order_status("update_order_status", order_id, new_status)
    /\ UNCHANGED <<total_orders_created, daily_order_count, orders_by_type, current_queue_size,
                   validation>>
    /\ UNCHANGED <<now, discountVars, trackerVars, factoryVars>>

\* service.cancel_order(order_id)
CancelOrder ==
    /\ \E order_id \in 1..Len(orders) : update_order_status("cancel_order", order_id, "cancelled")
    /\ UNCHANGED <<total_orders_created, daily_order_count, orders_by_type, current_queue_size,
                   validation>>
    /\ UNCHANGED <<now, discountVars, trackerVars, factoryVars>>

\* service.mark_order_ready(order_id)
MarkOrderReady ==
    /\ \E order_id \in 1..Len(orders) : update_order_status("mark_order_ready", order_id, "ready")
    /\ UNCHANGED <<total_orders_created, daily_order_count, orders_by_type, current_queue_size,
                   validation>>
    /\ UNCHANGED <<now, discountVars, trackerVars, factoryVars>>

\* a service for dine-in and drive-thru orders of every kind of customer
ServiceNext ==
    \/ ConfigureFactoryManager
    \/ RegisterFactory({"dine_in"}, {"DineInOrderFactory"})
    \/ RegisterFactory({"drive_thru"}, {"DriveThruOrderFactory"})
    \/ ServiceCreateOrder({"dine_in", "drive_thru"}, {"", "loyalty_member", "vip"}, {0, 1, 11},
                          MaxOrders)
    \/ UpdateOrderStatus(1..Len(orders), {"in_preparation", "completed", "cancelled"})
    \/ CancelOrder
    \/ MarkOrderReady

\* a drive-thru lane set up and then served in order: orders are taken one after another;
\* the service completes or cancels the order at the front of its queue, the factory
\* completes the order at the front of the lane; MaxCancelled orders at most are cancelled
DriveThruNext ==
    \/ ConfigureFactoryManager
    \/ (Len(orders) = 0 /\ RegisterFactory({"drive_thru"}, {"DriveThruOrderFactory"}))
    \/ ServiceCreateOrder({"drive_thru"}, {""}, {1}, MaxDriveThruOrders)
    \/ UpdateOrderStatus({order_service.order_queue[k] :
                             k \in {1} \cap DOMAIN order_service.order_queue}, {"completed"})
    \/ /\ Cardinality({i \in 1..Len(orders) : orders[i].status = "cancelled"}) < MaxCancelled
       /\ UpdateOrderStatus({order_service.order_queue[k] :
                                k \in {1} \cap DOMAIN order_service.order_queue}, {"cancelled"})
    \/ CompleteOrder({drive_thru_factory.lane_queues[1][k] :
                         k \in {1} \cap DOMAIN drive_thru_factory.lane_queues[1]})

\* ------------------------------------------------------------------ the system
NoCall ==
    [op |-> "none", order_total |-> 0, order_items |-> <<>>, customer_data |-> NoneCustomer,
     raised |-> FALSE, at |-> 0, before |-> <<>>,
     result |-> ManagerResult(NoDiscount, <<>>, <<>>, 0, 0)]

Init ==
    /\ now = 4 * 24 + 15
    /\ fpTieUp \in BOOLEAN
    /\ strategies = <<>>
    /\ applied_discounts_today = 0
    /\ total_savings_today = 0
    /\ calls = 0
    /\ call = NoCall
    /\ orders = <<>>
    /\ total_orders_created = 0
    /\ daily_order_count = 0
    /\ orders_by_type = [c \in OrderClasses |-> 0]
    /\ current_queue_size = 0
    /\ validation = NoValidation
    /\ observers = {}
    /\ is_active = [o \in ObserverIds |-> TRUE]
    /\ notification_count = [o \in ObserverIds |-> 0]
    /\ auto_notify_enabled = TRUE
    /\ notification_queue = <<>>
    /\ processing = FALSE
    /\ passes = 0
    /\ notify_calls = 0
    /\ notified = Notification("none", "", "")
    /\ \E seating_capacity \in {1, 60} :
          dine_in_factory = [seating_capacity |-> seating_capacity, occupied_tables |-> <<>>,
                             table_assignments |-> <<>>, orders_created |-> 0]
    /\ drive_thru_factory = [lane_queues |-> <<(<<>>)>>, lane_assignments |-> <<>>,
                             orders_created |-> 0]
    /\ delivery_factory = [available_drivers |-> <<>>, driver_assignments |-> <<>>,
                           orders_created |-> 0]
    /\ factory_manager = [factories |-> [t \in OrderTypes |-> "none"],
                          factory_stats |-> [t \in OrderTypes |-> NoneVal]]
    /\ created = [order_type |-> "none", raised |-> "", order_id |-> 0]
    /\ order_service = [factory_manager |-> FALSE, active_orders |-> {}, order_queue |-> <<>>,
                        completed_orders |-> <<>>, orders_processed_today |-> 0,
                        queued_with |-> <<>>]
    /\ served = [op |-> "none", order_id |-> 0, raised |-> "", returned |-> FALSE]

\* time passes
Tick ==
    /\ calls < MaxCalls
    /\ \E t \in ClockInstants : t > now /\ now' = t
    /\ UNCHANGED <<systemVars, fpTieUp, strategies, applied_discounts_today, total_savings_today, calls, call, orderVars>>

\* DiscountManager.add_strategy, of a rule constructed now
AddStrategy ==
    /\ calls < MaxCalls
    /\ Len(strategies) < MaxStrategies
    /\ \E k \in 1..Len(Catalog) : strategies' = add_strategy(strategies, Catalog[k])
    /\ UNCHANGED <<systemVars, now, fpTieUp, applied_discounts_today, total_savings_today, calls, call, orderVars>>

\* the manager and the record of the call after a resolution that answered r
Resolved(op, r, order_total, order_items, customer_data) ==
    /\ strategies' = r.strategies
    /\ applied_discounts_today' = (IF r.raised THEN applied_discounts_today ELSE r.applied)
    /\ total_savings_today' = (IF r.raised THEN total_savings_today ELSE r.savings)
    /\ calls' = calls + 1
    /\ call' = [op |-> op, order_total |-> order_total, order_items |-> order_items,
                customer_data |-> customer_data, raised |-> r.raised, at |-> now,
                before |-> strategies,
                result |-> IF r.raised THEN NoCall.result ELSE r.result]
    /\ UNCHANGED <<systemVars, now, fpTieUp, orderVars>>

\* a call of calculate_best_discount
CalculateBestDiscount ==
    /\ calls < MaxCalls
    /\ \E order_total \in OrderTotals, order_items \in ItemLists, customer_data \in Customers :
          Resolved("best",
                   calculate_best_discount(strategies, order_total, order_items, customer_data),
                   order_total, order_items, customer_data)

\* a call of calculate_multiple_discounts(..., allow_stacking=True)
CalculateMultipleDiscounts ==
    /\ calls < MaxCalls
    /\ \E order_total \in OrderTotals, order_items \in ItemLists, customer_data \in Customers :
          Resolved("stacked",
                   calculate_multiple_discounts(strategies, order_total, order_items, customer_data),
                   order_total, order_items, customer_data)

Next == Tick \/ AddStrategy \/ CalculateBestDiscount \/ CalculateMultipleDiscounts

Spec == Init /\ [][Next]_vars

\* ------------------------------------------------------------------ one rule on its own
\* A strategy object used without a manager: it is constructed, time passes, and its
\* apply_discount is called.  strategies holds the one object, call the last call.
Cola == <<"C","o","l","a">>

\* units of items outside the target set, of a longer name, and one unit of Fries
Mixed == <<Item(BigMac, 2, 499), Item(FriesLarge, 2, 299), Item(Fries, 1, 249)>>
\* one entry of three units, one of two, and an entry without a quantity
Party == <<Item(Fries, 3, 249), Item(BigMac, 2, 499),
           [keys |-> {"name", "unit_price"}, name |-> Cola, quantity |-> 0, unit_price |-> 149]>>

\* two units of an item that costs nothing
FreeRefill == <<Item(Cola, 2, 0)>>

RuleItemLists == {<<>>, TwoFries, Meal, Mixed, Party, FreeRefill}
RuleTotals == {0, 100, 2000}

SilverCustomer == Customer({"loyalty_tier"}, "str", <<"s","i","l","v","e","r">>)
BasicCustomer == Customer({"loyalty_tier"}, "str", <<"b","a","s","i","c">>)
RuleCustomers == Customers \cup {SilverCustomer, BasicCustomer}

\* Fri 15:00, Fri 17:00, Fri 20:00, Fri 23:00, Sat 02:00, Sat 15:00, Mon 03:00
RuleClockInstants ==
    {4 * 24 + 15, 4 * 24 + 17, 4 * 24 + 20, 4 * 24 + 23, 5 * 24 + 2, 5 * 24 + 15, 7 * 24 + 3}

RuleCatalog ==
    <<FixedAmountDiscountStrategy("First Order Special", 300, 1500, NoneVal, NoneVal),
      FixedAmountDiscountStrategy("Two Off", 200, 0, NoneVal, NoneVal),
      BuyOneGetOneStrategy("Fries BOGO", {Fries}, 50, NoneVal, NoneVal),
      BuyOneGetOneStrategy("Second Free", {Fries, BigMac, Cola}, 100, NoneVal, NoneVal),
      TimeBasedDiscountStrategy("Happy Hour", 20, 14, 17, TRUE, NoneVal, NoneVal),
      TimeBasedDiscountStrategy("Night Owl", 10, 22, 6, FALSE, NoneVal, NoneVal),
      TimeBasedDiscountStrategy("Weeknight", 10, 22, 6, TRUE, NoneVal, NoneVal),
      LoyaltyTierDiscountStrategy("Loyalty Tiers",
          {[tier |-> <<"g","o","l","d">>, pct |-> 12],
           [tier |-> <<"b","r","o","n","z","e">>, pct |-> 5],
           [tier |-> <<"b","a","s","i","c">>, pct |-> 0]}, NoneVal, NoneVal),
      ComboDiscountStrategy("Big Mac Combo", <<BigMac, Fries>>, 899, NoneVal, NoneVal),
      ComboDiscountStrategy("Big Mac Deal", <<Lower(BigMac), Fries>>, 599, NoneVal, NoneVal),
      PercentageDiscountStrategy("Limited Offer", 50, 0, NoneVal, 4 * 24 + 20, 5 * 24)>>

\* the constructor of a strategy class, called now
ConstructStrategy ==
    /\ strategies = <<>>
    /\ \E k \in 1..Len(RuleCatalog) : strategies' = <<RuleCatalog[k]>>
    /\ UNCHANGED <<systemVars, now, fpTieUp, applied_discounts_today, total_savings_today, calls, call, orderVars>>

RuleTick ==
    /\ calls < MaxCalls
    /\ \E t \in RuleClockInstants : t > now /\ now' = t
    /\ UNCHANGED <<systemVars, fpTieUp, strategies, applied_discounts_today, total_savings_today, calls, call, orderVars>>

\* the strategy and the record of the call after apply_discount answered a
Applied(a, order_total, order_items, customer_data) ==
    /\ strategies' = <<a.strategy>>
    /\ calls' = calls + 1
    /\ call' = [op |-> "apply", order_total |-> order_total, order_items |-> order_items,
                customer_data |-> customer_data, raised |-> a.raised, at |-> now,
                before |-> strategies,
                result |-> ManagerResult(a.result, <<>>, <<>>, order_total, order_total)]
    /\ UNCHANGED <<systemVars, now, fpTieUp, applied_discounts_today, total_savings_today, orderVars>>

\* a call of strategy.apply_discount
ApplyDiscount ==
    /\ calls < MaxCalls
    /\ Len(strategies) = 1
    /\ \E order_total \in RuleTotals, order_items \in RuleItemLists, customer_data \in RuleCustomers :
          Applied(apply_discount(strategies[1], order_total, order_items, customer_data),
                  order_total, order_items, customer_data)

RuleNext == ConstructStrategy \/ RuleTick \/ ApplyDiscount

RuleSpec == Init /\ [][RuleNext]_vars

\* ------------------------------------------------------------------ repeated resolutions
\* One manager asked again and again, so that resolutions run on rules whose usage
\* counters already moved.
RepeatCatalog ==
    <<PercentageDiscountStrategy("Ten Percent", 10, 0, NoneVal, NoneVal, NoneVal),
      BuyOneGetOneStrategy("Fries BOGO", {Fries}, 50, NoneVal, NoneVal),
      PercentageDiscountStrategy("Limited Offer", 50, 0, NoneVal, 4 * 24 + 20, 5 * 24)>>

RepeatTotals == {100, 5000}
RepeatItemLists == {<<>>, TwoFries}

RepeatTick ==
    /\ calls < MaxRepeats
    /\ \E t \in ClockInstants : t > now /\ now' = t
    /\ UNCHANGED <<systemVars, fpTieUp, strategies, applied_discounts_today, total_savings_today, calls, call, orderVars>>

RepeatAddStrategy ==
    /\ calls < MaxRepeats
    /\ Len(strategies) < MaxStrategies
    /\ \E k \in 1..Len(RepeatCatalog) : strategies' = add_strategy(strategies, RepeatCatalog[k])
    /\ UNCHANGED <<systemVars, now, fpTieUp, applied_discounts_today, total_savings_today, calls, call, orderVars>>

RepeatBestDiscount ==
    /\ calls < MaxRepeats
    /\ \E order_total \in RepeatTotals, order_items \in RepeatItemLists :
          Resolved("best",
                   calculate_best_discount(strategies, order_total, order_items, NoneCustomer),
                   order_total, order_items, NoneCustomer)

RepeatMultipleDiscounts ==
    /\ calls < MaxRepeats
    /\ \E order_total \in RepeatTotals, order_items \in RepeatItemLists :
          Resolved("stacked",
                   calculate_multiple_discounts(strategies, order_total, order_items, NoneCustomer),
                   order_total, order_items, NoneCustomer)

RepeatNext == RepeatTick \/ RepeatAddStrategy \/ RepeatBestDiscount \/ RepeatMultipleDiscounts

RepeatSpec == Init /\ [][RepeatNext]_vars

OrderSpec == Init /\ [][OrderNext]_vars

\* the order tracker: observers attached, detached and switched, notifications sent
TrackerSpec == Init /\ [][TrackerNext]_vars

\* the same, with the loop of process_notification_queue going on once it was entered
TrackerLiveSpec == TrackerSpec /\ WF_vars(ProcessStep)

\* the factories used through their manager, tables released, drivers added and removed
FactorySpec == Init /\ [][FactoryNext]_vars

\* the order service: orders created, moved through their statuses, cancelled
ServiceSpec == Init /\ [][ServiceNext]_vars

\* the order service taking and finishing drive-thru orders
DriveThruSpec == Init /\ [][DriveThruNext]_vars


\* ------------------------------------------------------------------ properties
\* The last call was calculate_best_discount / the stacked mode, and it returned.
\* Observed is: the clock still shows the time of the call, so that what a rule
\* yields can be computed again for comparison.
ReturnedBest == call.op = "best" /\ ~call.raised
ReturnedStacked == call.op = "stacked" /\ ~call.raised
Observed == call.op # "none" /\ call.at = now

Registered == 1..Len(call.before)

\* the registered rules as the call left them (rules are only appended afterwards)
CallAfter == SubSeq(strategies, 1, Len(call.before))

\* what apply_discount answers for the i-th registered rule against total
RuleOutcome(i, total) ==
    apply_discount(call.before[i], total, call.order_items, call.customer_data)

\* the i-th registered rule is applicable to the input of the call
Applicable(i) ==
    LET a == RuleOutcome(i, call.order_total) IN ~a.raised /\ a.result.applicable

AmountOf(i) == RuleOutcome(i, call.order_total).result.discount_amount

\* C1: calculate_best_discount returns the rule with the largest discount among the
\* applicable registered rules: when two applicable rules differ in amount, the winner
\* is an applicable rule, carries that rule's name and amount, and no applicable rule
\* has a larger amount, whatever the order of registration.
C1_BestIsMaximum ==
    (ReturnedBest /\ Observed
        /\ \E i, j \in Registered :
              Applicable(i) /\ Applicable(j) /\ AmountOf(i) # AmountOf(j))
    => /\ call.result.applicable
       /\ call.result.rule \in Registered
       /\ Applicable(call.result.rule)
       /\ call.result.discount_amount = AmountOf(call.result.rule)
       /\ call.result.strategy_name = call.before[call.result.rule].name
       /\ \A k \in Registered : Applicable(k) => AmountOf(k) <= call.result.discount_amount

\* C1 witness: a 3.00 rule registered before a 5.00 rule, and the 5.00 rule returned
C1_Witness ==
    /\ ReturnedBest /\ Observed
    /\ Len(call.before) = 2
    /\ Applicable(1) /\ AmountOf(1) = 300
    /\ Applicable(2) /\ AmountOf(2) = 500
    /\ call.result.rule = 2

\* C1 witness, the other order: the 5.00 rule registered first
C1_WitnessFirst ==
    /\ ReturnedBest /\ Observed
    /\ Len(call.before) = 2
    /\ Applicable(1) /\ AmountOf(1) = 500
    /\ Applicable(2) /\ AmountOf(2) = 300
    /\ call.result.rule = 1

\* the largest amount among the applicable rules (0 when there is none)
MaxAmount ==
    IF \E i \in Registered : Applicable(i)
    THEN LET w == CHOOSE i \in Registered :
                     Applicable(i) /\ \A k \in Registered : Applicable(k) => AmountOf(k) <= AmountOf(i)
         IN  AmountOf(w)
    ELSE 0

\* the applicable rules whose amount is the largest
Maximal == {i \in Registered : Applicable(i) /\ AmountOf(i) = MaxAmount}

\* C2: when two or more applicable rules yield the same, largest, discount amount,
\* calculate_best_discount returns the one registered first, for every such amount.
C2_TieFirstRegistered ==
    (ReturnedBest /\ Observed /\ Cardinality(Maximal) >= 2)
    => /\ call.result.rule \in Maximal
       /\ \A k \in Maximal : call.result.rule <= k
       /\ call.result.strategy_name = call.before[call.result.rule].name

\* C3: the discount_amount calculate_best_discount returns never exceeds the order
\* total it was given.
C3_BestWithinTotal ==
    ReturnedBest => call.result.discount_amount <= call.order_total

\* C4: when no registered rule is applicable to the input (no rule registered
\* included), calculate_best_discount returns, and returns applicable=false with
\* discount_amount=0.
C4_NoneApplicable ==
    (call.op = "best" /\ Observed /\ \A i \in Registered : ~Applicable(i))
    => /\ ~call.raised
       /\ ~call.result.applicable
       /\ call.result.discount_amount = 0

\* C5: calculate_best_discount changes the usage counter and the savings total of the
\* winning rule only: +1 and + the returned amount for the winner, nothing for any
\* other registered rule.
C5_OnlyWinnerCounted ==
    ReturnedBest
    => \A i \in Registered :
          IF i = call.result.rule
          THEN /\ CallAfter[i].usage_count = call.before[i].usage_count + 1
               /\ CallAfter[i].total_savings =
                      call.before[i].total_savings + call.result.discount_amount
          ELSE /\ CallAfter[i].usage_count = call.before[i].usage_count
               /\ CallAfter[i].total_savings = call.before[i].total_savings

\* the breakdown of a stacked resolution, and the running total its k-th entry and
\* the i-th registered rule were evaluated against, computed from the original total
AppliedStrategies == call.result.applied_strategies

PrefixTotal(k) ==
    call.order_total - SumSeq([j \in 1..(k - 1) |-> AppliedStrategies[j].discount])

RunningBefore(i) ==
    call.order_total
    - SumSeq([j \in 1..Len(AppliedStrategies) |->
                 IF AppliedStrategies[j].rule < i THEN AppliedStrategies[j].discount ELSE 0])

\* C6: the stacked mode applies the rules in registration order, each evaluated against
\* the total left after the earlier applied discounts, not against the original total:
\* every entry of the breakdown is what its rule yields for that running total, a rule
\* is in the breakdown exactly when it is applicable to its running total, and 10%
\* then 2.00 off on 50.00 gives 5.00, 2.00, final total 43.00 and discount 7.00.
C6_StackedRunningTotal ==
    (ReturnedStacked /\ Observed)
    => /\ \A k \in 1..Len(AppliedStrategies) :
             LET i == AppliedStrategies[k].rule
                 a == RuleOutcome(i, PrefixTotal(k))
             IN  /\ i \in Registered
                 /\ k > 1 => AppliedStrategies[k - 1].rule < i
                 /\ AppliedStrategies[k].strategy = call.before[i].name
                 /\ a.result.applicable
                 /\ a.result.discount_amount = AppliedStrategies[k].discount
       /\ \A i \in Registered :
             (\E k \in 1..Len(AppliedStrategies) : AppliedStrategies[k].rule = i)
             <=> RuleOutcome(i, RunningBefore(i)).result.applicable
       /\ (/\ Len(call.before) = 2
           /\ call.before[1].name = "Ten Percent"
           /\ call.before[2].name = "Two Off"
           /\ call.order_total = 5000)
          => /\ Len(AppliedStrategies) = 2
             /\ AppliedStrategies[1].discount = 500
             /\ AppliedStrategies[2].discount = 200
             /\ call.result.final_total = 4300
             /\ call.result.discount_amount = 700

\* C6 witness: two rules stacked, and the second discount is not what its rule would
\* yield for the original total
C6_Witness ==
    /\ ReturnedStacked /\ Observed
    /\ Len(AppliedStrategies) = 2
    /\ AppliedStrategies[1].discount > 0
    /\ AppliedStrategies[2].discount
         # RuleOutcome(AppliedStrategies[2].rule, call.order_total).result.discount_amount

\* the example of C6: 10% then 2.00 off on a 50.00 order
C6_Example ==
    /\ ReturnedStacked /\ Observed
    /\ Len(call.before) = 2
    /\ call.before[1].name = "Ten Percent"
    /\ call.before[2].name = "Two Off"
    /\ call.order_total = 5000
    /\ call.result.discount_amount = 700

\* C7: the discount_amount of a stacked resolution is the sum of the discounts listed
\* in applied_strategies, and is original_total - final_total of its details.
C7_StackedSum ==
    ReturnedStacked
    => /\ call.result.discount_amount =
              SumSeq([k \in 1..Len(AppliedStrategies) |-> AppliedStrategies[k].discount])
       /\ call.result.discount_amount = call.result.original_total - call.result.final_total
       /\ call.result.original_total = call.order_total

\* C7 witness: a stacked resolution that applied two discounts
C7_Witness ==
    /\ ReturnedStacked
    /\ Len(AppliedStrategies) = 2
    /\ AppliedStrategies[1].discount > 0
    /\ AppliedStrategies[2].discount > 0

\* the current time is before valid_from or after valid_until
OutsideWindow(s) ==
    now < s.valid_from \/ (s.valid_until # NoneVal /\ now > s.valid_until)

\* the rule would yield a discount for the input if its window were ignored
WouldApply(i) ==
    /\ ~is_applicable_raises(call.before[i], call.customer_data)
    /\ is_applicable(call.before[i], call.order_total, call.order_items, call.customer_data)
    /\ calculate_discount(call.before[i], call.order_total, call.order_items,
                          call.customer_data).applicable

\* C8: a rule whose validity window does not contain the current time is skipped by
\* both resolutions: it is not the winner, is in neither all_available nor
\* applied_strategies, and its counters stay as they were.
C8_OutsideWindowSkipped ==
    Observed
    => \A i \in Registered :
          OutsideWindow(call.before[i])
          => /\ call.result.rule # i
             /\ \A k \in 1..Len(call.result.all_available) :
                    call.result.all_available[k].rule # i
             /\ \A k \in 1..Len(AppliedStrategies) : AppliedStrategies[k].rule # i
             /\ CallAfter[i].usage_count = call.before[i].usage_count
             /\ CallAfter[i].total_savings = call.before[i].total_savings

\* C8 witness: a resolution that returned while a registered rule, whose predicate
\* holds for the input, was past its valid_until
C8_Witness ==
    /\ Observed /\ ~call.raised
    /\ \E i \in Registered :
          /\ call.before[i].valid_until # NoneVal
          /\ now > call.before[i].valid_until
          /\ WouldApply(i)

\* the same for a rule that is not yet valid
C8_WitnessNotYet ==
    /\ Observed /\ ~call.raised
    /\ \E i \in Registered : now < call.before[i].valid_from /\ WouldApply(i)

\* C9: no call of calculate_best_discount or of the stacked mode raises, whatever the
\* line items and the customer attributes hold.
C9_NeverRaises ==
    ~call.raised

\* total * pct / 100, or the configured cap when the product exceeds it, in cents
PercentageExpected(s, order_total) ==
    IF s.max_discount_amount # NoneVal /\ order_total * s.percentage > s.max_discount_amount * 100
    THEN s.max_discount_amount
    ELSE Round2(order_total * s.percentage, 100)

\* C10: a percentage rule is applicable exactly when the total reaches its minimum
\* order amount, and its discount is then total * pct / 100 (to the cent), replaced by
\* the configured cap whenever the product exceeds it, for every cap value.
C10_PercentageRule ==
    (ReturnedBest /\ Observed)
    => \A i \in Registered :
          (call.before[i].kind = "percentage" /\ ~OutsideWindow(call.before[i]))
          => LET entries == {k \in 1..Len(call.result.all_available) :
                                call.result.all_available[k].rule = i}
             IN  /\ entries # {} <=> call.order_total >= call.before[i].min_order_amount
                 /\ \A k \in entries :
                        call.result.all_available[k].discount_amount
                            = PercentageExpected(call.before[i], call.order_total)

\* ------------------------------------------------------------------ properties of one rule
\* The last call was apply_discount on a strategy of the given kind, inside its
\* validity window, with the clock still at the time of the call.
TheRule == call.before[1]

AppliedKind(kind) ==
    /\ call.op = "apply" /\ Observed
    /\ TheRule.kind = kind
    /\ ~OutsideWindow(TheRule)

\* C11: a fixed-amount rule is applicable exactly when the total reaches its minimum
\* order amount, its discount is then the smaller of the fixed amount and the total,
\* and so never more than the total it was evaluated against.
C11_FixedRule ==
    AppliedKind("fixed_amount")
    => /\ ~call.raised
       /\ call.result.applicable <=> call.order_total >= TheRule.min_order_amount
       /\ call.result.applicable
          => call.result.discount_amount
                = (IF TheRule.discount_amount <= call.order_total
                   THEN TheRule.discount_amount ELSE call.order_total)
       /\ call.result.discount_amount <= call.order_total

\* C11 witness: 2.00 off evaluated against 1.00 takes 1.00 off
C11_Witness ==
    /\ AppliedKind("fixed_amount")
    /\ TheRule.discount_amount = 200
    /\ call.order_total = 100
    /\ call.result.applicable
    /\ call.result.discount_amount = 100

\* C11 witness: a total below the minimum order amount
C11_WitnessBelowMinimum ==
    /\ AppliedKind("fixed_amount")
    /\ call.order_total < TheRule.min_order_amount
    /\ ~call.result.applicable

\* the line entries of the call that carry exactly the name n, and their units
EntriesNamed(n) ==
    {k \in 1..Len(call.order_items) :
        "name" \in call.order_items[k].keys /\ call.order_items[k].name = n}

Units(n) ==
    SumSeq([k \in 1..Len(call.order_items) |->
               IF k \in EntriesNamed(n)
               THEN (IF "quantity" \in call.order_items[k].keys
                     THEN call.order_items[k].quantity ELSE 1)
               ELSE 0])

\* the target items of the rule of which the order holds two units or more
PairedNames == {n \in TheRule.target_items : Units(n) >= 2}

\* C12: a BOGO rule is applicable exactly when some name of its target set has two
\* units or more, the units being summed over the entries carrying exactly that name;
\* items outside the target set never make it applicable.  (The result of
\* apply_discount is applicable only for such an order.)
C12_BogoApplicable ==
    AppliedKind("bogo")
    => /\ Bogo_is_applicable(TheRule, call.order_items) <=> PairedNames # {}
       /\ call.result.applicable => PairedNames # {}
       /\ PairedNames = {} => call.result.discount_amount = 0

\* C12 witness: two entries of one unit each make the rule applicable
C12_Witness ==
    /\ AppliedKind("bogo")
    /\ \E n \in TheRule.target_items :
          /\ Cardinality(EntriesNamed(n)) = 2
          /\ \A k \in EntriesNamed(n) : call.order_items[k].quantity = 1
    /\ call.result.applicable

\* C12 witness: two units of items outside the target set only
C12_WitnessOutside ==
    /\ AppliedKind("bogo")
    /\ \E k \in 1..Len(call.order_items) :
          /\ call.order_items[k].quantity >= 2
          /\ call.order_items[k].name \notin TheRule.target_items
    /\ PairedNames = {}
    /\ ~call.result.applicable

\* the unit price of the entries named n
PriceOf(n) == call.order_items[CHOOSE k \in EntriesNamed(n) : TRUE].unit_price

\* all entries of a name carry the same, present, unit price
UniformPrices ==
    \A n \in TheRule.target_items : \A k \in EntriesNamed(n) :
        /\ "unit_price" \in call.order_items[k].keys
        /\ call.order_items[k].unit_price = PriceOf(n)

RECURSIVE PairsTotal(_)
\* sum over the names of floor(units / 2) * unit price * discount_pct, in 1/100 cent
PairsTotal(names) ==
    IF names = {} THEN 0
    ELSE LET n == CHOOSE x \in names : TRUE
         IN  (IF EntriesNamed(n) = {} THEN 0
              ELSE (Units(n) \div 2) * PriceOf(n) * TheRule.discount_percentage)
             + PairsTotal(names \ {n})

\* C13: the BOGO discount is, summed over the target names, floor(units / 2) *
\* unit price * discount_pct / 100, to the cent; two entries of one unit at 2.49 with
\* 50% are one pair, 1.245 before rounding.
C13_BogoAmount ==
    (AppliedKind("bogo") /\ UniformPrices)
    => /\ call.result.discount_amount = Round2(PairsTotal(TheRule.target_items), 100)
       /\ (call.order_items = TwoFries /\ TheRule.target_items = {Fries}
              /\ TheRule.discount_percentage = 50)
          => /\ PairsTotal(TheRule.target_items) = 12450
             /\ call.result.discount_amount \in {124, 125}

\* C13 witness: the example, two entries of one unit at 2.49 and 50%
C13_Witness ==
    /\ AppliedKind("bogo") /\ UniformPrices
    /\ call.order_items = TwoFries
    /\ TheRule.discount_percentage = 50
    /\ call.result.applicable
    /\ call.result.discount_amount \in {124, 125}

\* C13 witness: three units of one name and two of another, one pair each
C13_WitnessTwoNames ==
    /\ AppliedKind("bogo") /\ UniformPrices
    /\ Cardinality(PairedNames) = 2
    /\ \E n \in PairedNames : Units(n) = 3
    /\ call.result.discount_amount = 249 + 499

\* the time of day and the day of the week (0: Monday) of the call
TimeOfCall == call.at % 24
DayOfCall == (call.at \div 24) % 7

\* the hours of the day a window from start to end covers
WindowHours(start, end) ==
    IF start <= end THEN start..end ELSE (start..23) \cup (0..end)

\* C14: a time-window rule is applicable exactly when the time of day lies in
\* [start, end], or, for start > end, in [start, 24:00) or [00:00, end], and, when
\* weekdays-only is set, the day is Monday to Friday; with the window 14:00-17:00 it
\* is applicable at 15:00 and not at 20:00.
C14_TimeWindow ==
    AppliedKind("time_based")
    => /\ call.result.applicable
          <=> /\ TimeOfCall \in WindowHours(TheRule.start_time, TheRule.end_time)
              /\ TheRule.weekdays_only => DayOfCall \in 0..4
       /\ (TheRule.start_time = 14 /\ TheRule.end_time = 17)
          => /\ (TimeOfCall = 15 /\ DayOfCall \in 0..4) => call.result.applicable
             /\ TimeOfCall = 20 => ~call.result.applicable

\* C14 witness: the window 14:00-17:00 at 15:00 on a Friday
C14_Witness ==
    /\ AppliedKind("time_based")
    /\ TheRule.start_time = 14 /\ TheRule.end_time = 17
    /\ TimeOfCall = 15 /\ DayOfCall = 4
    /\ call.result.applicable

\* C14 witness: the same window at 20:00
C14_WitnessOutside ==
    /\ AppliedKind("time_based")
    /\ TheRule.start_time = 14 /\ TheRule.end_time = 17
    /\ TimeOfCall = 20
    /\ ~call.result.applicable

\* C14 witness: a window past midnight, after midnight
C14_WitnessWrap ==
    /\ AppliedKind("time_based")
    /\ TheRule.start_time > TheRule.end_time
    /\ TimeOfCall <= TheRule.end_time
    /\ call.result.applicable

\* C14 witness: a weekdays-only window on a Saturday, at an hour inside it
C14_WitnessWeekend ==
    /\ AppliedKind("time_based")
    /\ TheRule.weekdays_only /\ DayOfCall = 5
    /\ TimeOfCall \in WindowHours(TheRule.start_time, TheRule.end_time)
    /\ ~call.result.applicable

\* the entries of the rule's tier mapping for the loyalty_tier attribute of the call,
\* compared without regard to case: none when the customer attributes are absent, the
\* attribute is missing, or its value is not in the mapping
TierEntries ==
    IF \/ call.customer_data.is_none
       \/ "loyalty_tier" \notin call.customer_data.keys
       \/ call.customer_data.loyalty_tier.type # "str"
    THEN {}
    ELSE {e \in TheRule.tier_discounts : e.tier = Lower(call.customer_data.loyalty_tier.text)}

EntriesContaining(r) ==
    {k \in 1..Len(call.order_items) :
        /\ "name" \in call.order_items[k].keys
        /\ IsSubstring(Lower(r), Lower(call.order_items[k].name))}

\* the unit price of the first entry that matches r
MatchedPrice(r) ==
    LET k == CHOOSE i \in EntriesContaining(r) : \A j \in EntriesContaining(r) : i <= j
    IN  IF "unit_price" \in call.order_items[k].keys THEN call.order_items[k].unit_price ELSE 0

\* every required item of the bundle is matched by some entry
BundlePresent == \A j \in 1..Len(TheRule.combo_items) : EntriesContaining(TheRule.combo_items[j]) # {}

\* sum of the matched items' unit prices - bundle price
BundleSavings ==
    SumSeq([j \in 1..Len(TheRule.combo_items) |-> MatchedPrice(TheRule.combo_items[j])])
    - TheRule.combo_price

\* C16: a combo rule is applicable exactly when every required item name occurs,
\* letter case aside, as a substring of some line item name; its discount is then
\* max(0, sum of the matched items' unit prices - bundle price), never negative.
C16_ComboRule ==
    AppliedKind("combo")
    => /\ ~call.raised
       /\ call.result.applicable <=> BundlePresent
       /\ call.result.applicable
          => call.result.discount_amount = (IF BundleSavings > 0 THEN BundleSavings ELSE 0)
       /\ call.result.discount_amount >= 0

\* C16 witness: "bigmac" and "Fries" found in "BigMac" and "FriesL", 4.99 + 2.99 for 5.99
C16_Witness ==
    /\ AppliedKind("combo")
    /\ call.order_items = Meal
    /\ TheRule.combo_price = 599
    /\ call.result.applicable
    /\ call.result.discount_amount = 199

\* C16 witness: a bundle price above the sum of the items, discount 0
C16_WitnessFloor ==
    /\ AppliedKind("combo")
    /\ BundlePresent /\ BundleSavings < 0
    /\ call.result.applicable
    /\ call.result.discount_amount = 0

\* C16 witness: one required item is missing
C16_WitnessMissing ==
    /\ AppliedKind("combo")
    /\ \E j \in 1..Len(TheRule.combo_items) : EntriesContaining(TheRule.combo_items[j]) # {}
    /\ ~BundlePresent
    /\ ~call.result.applicable

\* the registered rules of the call as their constructors left them: counters at 0
Unused == [i \in Registered |-> [call.before[i] EXCEPT !.usage_count = 0, !.total_savings = 0]]

\* what calculate_best_discount returns for the input of the call on unused rules
UnusedResult ==
    calculate_best_discount(Unused, call.order_total, call.order_items, call.customer_data).result

\* C17: the outcome of calculate_best_discount (winning rule, amount, applicable flag)
\* depends only on the registered rules, the input and the clock: a resolution that
\* runs after others, on rules whose counters moved, returns what the same rules
\* return at the same time when never used.
C17_CountersDoNotInfluence ==
    (ReturnedBest /\ Observed)
    => /\ call.result.rule = UnusedResult.rule
       /\ call.result.strategy_name = UnusedResult.strategy_name
       /\ call.result.discount_amount = UnusedResult.discount_amount
       /\ call.result.applicable = UnusedResult.applicable

\* C17 witness: a second resolution won by a rule that was counted before
C17_Witness ==
    /\ ReturnedBest /\ Observed
    /\ calls >= 2
    /\ call.result.applicable
    /\ call.before[call.result.rule].usage_count > 0
    /\ applied_discounts_today + total_savings_today > 0

\* C18: add_strategy always appends: a registration, of a rule whose name is already
\* registered included, leaves the earlier rules as they were, in their order, and
\* puts the new rule after them.
C18_RegisterAppends ==
    [][(calls' = calls /\ strategies' # strategies)
       => /\ Len(strategies') = Len(strategies) + 1
          /\ SubSeq(strategies', 1, Len(strategies)) = strategies]_vars

\* C18 witness: two rules of one name are registered, and a resolution evaluated both
C18_Witness ==
    /\ ReturnedBest
    /\ Len(call.before) = 2
    /\ call.before[1].name = call.before[2].name
    /\ Len(call.result.all_available) = 2
    /\ call.result.all_available[1].rule = 1
    /\ call.result.all_available[2].rule = 2

\* C19: every result of calculate_best_discount names the winner: whenever some
\* registered rule is applicable to the input, the result has applicable=true and the
\* strategy_name of an applicable registered rule; strategy_name is "none" only when
\* no rule is applicable.
C19_NamesTheWinner ==
    (ReturnedBest /\ Observed)
    => /\ (\E i \in Registered : Applicable(i))
          => /\ call.result.applicable
             /\ \E i \in Registered :
                   Applicable(i) /\ call.result.strategy_name = call.before[i].name
       /\ call.result.strategy_name = "none" => \A i \in Registered : ~Applicable(i)

\* C20: validate_order returns True, and does not raise, for a newly constructed
\* DineInOrder with table_number > 0 and party_size > 0 and for a newly constructed
\* DriveThruOrder, as the constructor left them, before any item is added.
C20_NewOrderValidates ==
    (/\ validation.order # 0
     /\ validation.subject.items = <<>>
     /\ validation.subject.class = "DineInOrder"
        => validation.subject.table_number > 0 /\ validation.subject.party_size > 0)
    => ~validation.raised

\* C30: in the stacked mode the running total never drops below zero: for every
\* non-negative order total the final_total is >= 0 and the discount_amount is at most
\* the original total, item-based rules stacked after total-based ones included.
C30_StackedWithinTotal ==
    ReturnedStacked
    => /\ call.result.final_total >= 0
       /\ call.result.discount_amount <= call.order_total

\* ------------------------------------------------------------------ the order tracker
\* a step in which notify runs: a call from outside, or a pass of the loop of
\* process_notification_queue over a queue that is not empty; and its argument
NotifyCall == notify_calls' # notify_calls \/ (processing /\ notification_queue # <<>>)

NotifyArgument == IF processing THEN Head(notification_queue) ELSE notified'

Delivered(o) == notification_count'[o] = notification_count[o] + 1

Eligible(o, n) == o \in observers /\ is_active[o] /\ is_interested_in(o, n)

C28_ProcessTerminates == processing ~> (~processing /\ notification_queue = <<>>)

\* ------------------------------------------------------------------ the order factories
\* a step in which manager.create_order answered
ManagerAnswered == created' # created \/ Len(orders') # Len(orders)

\* the factory class that makes orders of type t
ConcreteFactory(t) ==
    CASE t = "dine_in" -> "DineInOrderFactory"
      [] t = "drive_thru" -> "DriveThruOrderFactory"
      [] OTHER -> "DeliveryOrderFactory"

\* C22: manager.create_order(t, ...) raises InvalidOrderException, and constructs nothing,
\* when no factory is registered for t; an order it returns while the concrete factory
\* for t is registered under t is of type t; every order returned raises the creation
\* count of t by exactly one and leaves the other counts alone, and a call that raises
\* leaves all counts alone.
C22_ManagerCreates ==
    [][ManagerAnswered =>
        /\ factory_manager.factories[created'.order_type] = "none"
            => (created'.raised = "InvalidOrderException" /\ orders' = orders)
        /\ (/\ factory_manager.factories[created'.order_type]
                  = ConcreteFactory(created'.order_type)
            /\ created'.raised = "")
            => /\ created'.order_id = Len(orders')
               /\ get_order_type(orders'[created'.order_id]) = created'.order_type
        /\ created'.raised = ""
            => /\ Len(orders') = Len(orders) + 1
               /\ factory_manager'.factory_stats =
                     [factory_manager.factory_stats EXCEPT ![created'.order_type] = @ + 1]
        /\ created'.raised # ""
            => (orders' = orders /\ factory_manager' = factory_manager)
      ]_vars

\* both factories registered under their types, two orders returned, the second a
\* delivery order, one counted for each type
C22_Witness ==
    /\ factory_manager.factories["dine_in"] = "DineInOrderFactory"
    /\ factory_manager.factories["delivery"] = "DeliveryOrderFactory"
    /\ created = [order_type |-> "delivery", raised |-> "", order_id |-> 2]
    /\ Len(orders) = 2
    /\ orders[1].class = "DineInOrder"
    /\ orders[2].class = "DeliveryOrder"
    /\ factory_manager.factory_stats["dine_in"] = 1
    /\ factory_manager.factory_stats["delivery"] = 1

\* a call for a type without a factory raised
C22_WitnessUnregistered ==
    /\ created = [order_type |-> "drive_thru", raised |-> "InvalidOrderException",
                  order_id |-> 0]
    /\ factory_manager.factories["drive_thru"] = "none"
    /\ Len(orders) = 1

\* C27: no driver is assigned to two orders at once in the driver assignments.
C27_OneDeliveryPerDriver ==
    \A i, j \in DOMAIN delivery_factory.driver_assignments :
        i # j => delivery_factory.driver_assignments[i] # delivery_factory.driver_assignments[j]

\* C29: the occupied tables are numbers in 1..seating_capacity, the two maps of the
\* dine-in factory are inverse of each other, and available_tables as get_seating_status
\* computes it is not negative.
C29_TablesWithinCapacity ==
    /\ DOMAIN dine_in_factory.occupied_tables \subseteq 1..dine_in_factory.seating_capacity
    /\ \A t \in DOMAIN dine_in_factory.occupied_tables :
          /\ dine_in_factory.occupied_tables[t] \in DOMAIN dine_in_factory.table_assignments
          /\ dine_in_factory.table_assignments[dine_in_factory.occupied_tables[t]] = t
    /\ \A n \in DOMAIN dine_in_factory.table_assignments :
          /\ dine_in_factory.table_assignments[n] \in DOMAIN dine_in_factory.occupied_tables
          /\ dine_in_factory.occupied_tables[dine_in_factory.table_assignments[n]] = n
    /\ dine_in_factory.seating_capacity
          - Cardinality(DOMAIN dine_in_factory.occupied_tables) >= 0

\* ------------------------------------------------------------------ the order service
\* a step in which service.create_order raised
CreateRaised == served' # served /\ served'.op = "create_order" /\ served'.raised # ""

\* C23: a create_order of the service that raises leaves the active orders, the priority
\* queue, the occupied tables, the drive-thru lanes and the drive-thru queue size as they
\* were.
C23_RejectionLeavesNoTrace ==
    [][CreateRaised =>
        /\ order_service'.active_orders = order_service.active_orders
        /\ order_service'.order_queue = order_service.order_queue
        /\ dine_in_factory'.occupied_tables = dine_in_factory.occupied_tables
        /\ drive_thru_factory'.lane_queues = drive_thru_factory.lane_queues
        /\ current_queue_size' = current_queue_size
      ]_vars

\* C24: the priority queue is ordered by non-increasing priority, every order ranked by
\* the priority it was inserted with, and orders of equal priority are in creation order.
C24_QueueByPriority ==
    \A i, j \in 1..Len(order_service.order_queue) :
        i < j =>
            \/ order_service.queued_with[order_service.order_queue[i]]
                  > order_service.queued_with[order_service.order_queue[j]]
            \/ /\ order_service.queued_with[order_service.order_queue[i]]
                     = order_service.queued_with[order_service.order_queue[j]]
               /\ order_service.order_queue[i] < order_service.order_queue[j]

\* the drive-thru orders constructed and not completed or cancelled since, neither through
\* the service nor through the factory
Outstanding ==
    Cardinality({i \in 1..Len(orders) :
                    /\ orders[i].class = "DriveThruOrder"
                    /\ orders[i].status \notin {"completed", "cancelled"}
                    /\ i \in DOMAIN drive_thru_factory.lane_assignments})

\* C25: the creation of a drive-thru order fails for a full queue only when
\* max_queue_size orders are outstanding.
C25_FullOnlyWhenOutstanding ==
    [][(CreateRaised /\ served'.raised = "DriveThruQueueFullException")
        => Outstanding >= max_queue_size]_vars

Finished(o) == o.status \in {"completed", "cancelled"}

\* C26: an order that is completed or cancelled is neither active nor queued; from then
\* on it stays as it is, and every update_order_status, cancel_order and mark_order_ready
\* for it returns False and changes neither an order nor the service.
C26_FinishedStaysFinished ==
    [][\A order_id \in 1..Len(orders) :
        /\ Finished(orders'[order_id])
            => /\ order_id \notin order_service'.active_orders
               /\ \A k \in 1..Len(order_service'.order_queue) :
                     order_service'.order_queue[k] # order_id
        /\ Finished(orders[order_id])
            => /\ orders'[order_id] = orders[order_id]
               /\ (served' # served /\ served'.order_id = order_id
                   /\ served'.op \in {"update_order_status", "cancel_order", "mark_order_ready"})
                   => (~served'.returned /\ orders' = orders /\ order_service' = order_service)
      ]_vars

\* order 1 was completed and order 2 cancelled; a later mark_order_ready for order 1
\* returned False, and order 1 is still completed, not active and not queued
C26_Witness ==
    /\ Len(orders) = 2
    /\ orders[1].status = "completed"
    /\ orders[2].status = "cancelled"
    /\ order_service.completed_orders = <<1>>
    /\ order_service.active_orders = {}
    /\ order_service.order_queue = <<>>
    /\ served = [op |-> "mark_order_ready", order_id |-> 1, raised |-> "", returned |-> FALSE]

====
